---- MODULE Spec2Model ----
(***************************************************************************)
(* A model of the checks of eslint-plugin-drizzle-postgres: each check is  *)
(* a set of listeners that the tree walker calls on the nodes of one       *)
(* compilation unit, followed by its Program:exit listener.                *)
(*                                                                         *)
(* Text is modelled as a sequence of one-character strings, so that        *)
(* toLowerCase, includes, endsWith and startsWith are computed as          *)
(* JavaScript computes them.                                               *)
(***************************************************************************)
EXTENDS Integers, Sequences, FiniteSets, TLC

VARIABLES
    options,             \* context.options[0] of the check being run
    unit,                \* the nodes of the compilation unit, in source order
    phase,               \* "new" (before create), "visit", "done"
    run,                 \* 1 or 2: the unit is linted twice
    pending,             \* indices of the nodes of the unit not yet visited
    sameOrder,           \* the current run has visited the nodes in source order
    reports,             \* context.report calls of the current run, in order
    firstReports,        \* the reports of run 1, kept for comparison
    tablesFound,         \* require-rls-enabled: Map name -> node, insertion order
    tablesWithRLS,       \* require-rls-enabled: Set of names
    tablesWithPolicies,  \* require-rls-enabled: Set of names
    joinCounts,          \* limit-join-complexity: joinCount computed at each join call
    currentTableName     \* enforce-index-naming: the remembered table name

vars == <<options, unit, phase, run, pending, sameOrder, reports, firstReports,
          tablesFound, tablesWithRLS, tablesWithPolicies, joinCounts,
          currentTableName>>

(***************************************************************************)
(* Bounds of the model.                                                    *)
(***************************************************************************)
MaxUnitLen == 3
MaxBypassUnitLen == 2
MaxChainLen == 5
MaxColumns == 2
MaxSegments == 3

(***************************************************************************)
(* Text helpers.                                                           *)
(***************************************************************************)
Uppers == <<"A","B","C","D","E","F","G","H","I","J","K","L","M",
            "N","O","P","Q","R","S","T","U","V","W","X","Y","Z">>
Lowers == <<"a","b","c","d","e","f","g","h","i","j","k","l","m",
            "n","o","p","q","r","s","t","u","v","w","x","y","z">>

toLowerCaseChar(c) ==
    IF \E i \in DOMAIN Uppers : Uppers[i] = c
    THEN Lowers[CHOOSE i \in DOMAIN Uppers : Uppers[i] = c]
    ELSE c

toLowerCase(s) == [i \in DOMAIN s |-> toLowerCaseChar(s[i])]

\* String.prototype.includes
includes(s, sub) ==
    \E i \in 0..(Len(s) - Len(sub)) : SubSeq(s, i + 1, i + Len(sub)) = sub

\* String.prototype.endsWith
endsWith(s, suffix) ==
    /\ Len(suffix) <= Len(s)
    /\ SubSeq(s, Len(s) - Len(suffix) + 1, Len(s)) = suffix

\* Array.prototype.includes
arrayIncludes(arr, x) == \E i \in DOMAIN arr : arr[i] = x

SeqToSet(s) == {s[i] : i \in DOMAIN s}

Min(S) == CHOOSE x \in S : \A y \in S : x <= y

(***************************************************************************)
(* Names used in the units.                                                *)
(***************************************************************************)
users  == <<"u","s","e","r","s">>
Users  == <<"U","s","e","r","s">>
posts  == <<"p","o","s","t","s">>
userId == <<"u","s","e","r","I","d">>
user_id == <<"u","s","e","r","_","i","d">>
name_id == <<"i","d">>
slug   == <<"s","l","u","g">>

\* an optional property of an options object
Undefined == [present |-> FALSE, value |-> <<>>]
Given(v)  == [present |-> TRUE, value |-> v]
\* JavaScript `x || d` for an array-valued x: every array is truthy
OrDefault(x, d) == IF x.present THEN x.value ELSE d

\* null
Null == [ok |-> FALSE, value |-> <<>>]
NotNull(v) == [ok |-> TRUE, value |-> v]

(***************************************************************************)
(* require-rls-enabled                                                     *)
(***************************************************************************)
defaultSensitivePatterns ==
    << <<"u","s","e","r">>,
       <<"a","c","c","o","u","n","t">>,
       <<"p","r","o","f","i","l","e">>,
       <<"p","a","y","m","e","n","t">>,
       <<"o","r","d","e","r">>,
       <<"i","n","v","o","i","c","e">>,
       <<"m","e","d","i","c","a","l">>,
       <<"h","e","a","l","t","h">>,
       <<"p","e","r","s","o","n","a","l">>,
       <<"p","r","i","v","a","t","e">>,
       <<"a","u","t","h">>,
       <<"s","e","s","s","i","o","n">>,
       <<"t","o","k","e","n">> >>

sensitiveTablesOf(opts) == OrDefault(opts.sensitiveTables, <<>>)
sensitivePatternsOf_noneWhenTablesListed(opts) ==
    IF opts.sensitiveTables.present THEN OrDefault(opts.sensitivePatterns, <<>>)
    ELSE OrDefault(opts.sensitivePatterns, defaultSensitivePatterns)

sensitivePatternsOf(opts) == OrDefault(opts.sensitivePatterns, defaultSensitivePatterns)

isSensitiveTable_caseSensitive(opts, tableName) ==
    \/ arrayIncludes(sensitiveTablesOf(opts), tableName)
    \/ \E i \in DOMAIN sensitivePatternsOf(opts) :
          includes(tableName, sensitivePatternsOf(opts)[i])

isSensitiveTable(opts, tableName) ==
    LET lowerName == toLowerCase(tableName) IN
    \/ arrayIncludes(sensitiveTablesOf(opts), tableName)
    \/ \E i \in DOMAIN sensitivePatternsOf(opts) :
          includes(lowerName, toLowerCase(sensitivePatternsOf(opts)[i]))

isTableCall(node) ==
    /\ node.type = "CallExpression"
    /\ node.callee \in {"pgTable", "mysqlTable", "sqliteTable"}

\* A raw statement text is a sequence of statements; a statement that one of
\* the two patterns matches is [kind |-> "rls" | "policy", table |-> name].
\* RegExp.prototype.exec without the g flag returns the leftmost match only.
execMatch(sqlContent, kind) ==
    LET hits == {i \in DOMAIN sqlContent : sqlContent[i].kind = kind} IN
    IF hits = {} THEN [matched |-> FALSE, table |-> <<>>]
    ELSE [matched |-> TRUE, table |-> sqlContent[Min(hits)].table]

isSqlCall(node) ==
    /\ node.type = "CallExpression"
    /\ node.callee = "sql"
    /\ node.template

mapSet_moveToEnd(m, key, value) ==
    Append(SelectSeq(m, LAMBDA e : e.key # key), [key |-> key, value |-> value])

\* Map.prototype.set: a new key is appended, an old key keeps its place
mapSet(m, key, value) ==
    IF \E i \in DOMAIN m : m[i].key = key
    THEN [i \in DOMAIN m |-> IF m[i].key = key THEN [key |-> key, value |-> value]
                                                ELSE m[i]]
    ELSE Append(m, [key |-> key, value |-> value])

\* The CallExpression listener.  s is the state the listener closes over.
rlsCallExpression_lastStatementOnly(s, node, id) ==
    LET found == IF isTableCall(node) /\ node.literal
                 THEN mapSet(s.tablesFound, node.name, id)
                 ELSE s.tablesFound
        rlsMatch == execMatch(node.text, "rls")
        policyMatch == execMatch(node.text, "policy")
    IN  [tablesFound |-> found,
         tablesWithRLS |->
            IF isSqlCall(node) /\ rlsMatch.matched /\ rlsMatch.table # <<>>
            THEN {rlsMatch.table} ELSE s.tablesWithRLS,
         tablesWithPolicies |->
            IF isSqlCall(node) /\ policyMatch.matched /\ policyMatch.table # <<>>
            THEN {policyMatch.table}
            ELSE s.tablesWithPolicies]

rlsCallExpression_declaredFirst(s, node, id) ==
    LET found == IF isTableCall(node) /\ node.literal
                 THEN mapSet(s.tablesFound, node.name, id)
                 ELSE s.tablesFound
        rlsMatch == execMatch(node.text, "rls")
        policyMatch == execMatch(node.text, "policy")
        declared(t) == \E i \in DOMAIN s.tablesFound : s.tablesFound[i].key = t
    IN  [tablesFound |-> found,
         tablesWithRLS |->
            IF isSqlCall(node) /\ rlsMatch.matched /\ rlsMatch.table # <<>>
               /\ declared(rlsMatch.table)
            THEN s.tablesWithRLS \cup {rlsMatch.table} ELSE s.tablesWithRLS,
         tablesWithPolicies |->
            IF isSqlCall(node) /\ policyMatch.matched /\ policyMatch.table # <<>>
            THEN s.tablesWithPolicies \cup {policyMatch.table}
            ELSE s.tablesWithPolicies]

rlsCallExpression(s, node, id) ==
    LET found == IF isTableCall(node) /\ node.literal
                 THEN mapSet(s.tablesFound, node.name, id)
                 ELSE s.tablesFound
        rlsMatch == execMatch(node.text, "rls")
        policyMatch == execMatch(node.text, "policy")
    IN  [tablesFound |-> found,
         tablesWithRLS |->
            IF isSqlCall(node) /\ rlsMatch.matched /\ rlsMatch.table # <<>>
            THEN s.tablesWithRLS \cup {rlsMatch.table} ELSE s.tablesWithRLS,
         tablesWithPolicies |->
            IF isSqlCall(node) /\ policyMatch.matched /\ policyMatch.table # <<>>
            THEN s.tablesWithPolicies \cup {policyMatch.table}
            ELSE s.tablesWithPolicies]

rlsReport(messageId, entry) ==
    [messageId |-> messageId, table |-> entry.key, node |-> entry.value]

\* The Program:exit listener: the reports it makes, in order.
RECURSIVE rlsProgramExit_bothChecks(_, _, _, _)
rlsProgramExit_bothChecks(opts, found, withRLS, withPolicies) ==
    IF found = <<>> THEN <<>>
    ELSE LET e == Head(found)
             here == IF ~isSensitiveTable(opts, e.key) THEN <<>>
                     ELSE (IF e.key \notin withRLS
                           THEN <<rlsReport("missingRLS", e)>> ELSE <<>>)
                          \o (IF e.key \notin withPolicies
                              THEN <<rlsReport("missingPolicy", e)>> ELSE <<>>)
         IN here \o rlsProgramExit_bothChecks(opts, Tail(found), withRLS, withPolicies)

RECURSIVE rlsProgramExit(_, _, _, _)
rlsProgramExit(opts, found, withRLS, withPolicies) ==
    IF found = <<>> THEN <<>>
    ELSE LET e == Head(found)
             here == IF ~isSensitiveTable(opts, e.key) THEN <<>>
                     ELSE IF e.key \notin withRLS
                          THEN <<rlsReport("missingRLS", e)>>
                     ELSE IF e.key \notin withPolicies
                          THEN <<rlsReport("missingPolicy", e)>>
                     ELSE <<>>
         IN here \o rlsProgramExit(opts, Tail(found), withRLS, withPolicies)

\* The nodes a unit is drawn from.
RlsNode(type, callee, literal, name, template, text) ==
    [type |-> type, callee |-> callee, literal |-> literal, name |-> name,
     template |-> template, text |-> text]
TableNode(callee, name) == RlsNode("CallExpression", callee, TRUE, name, FALSE, <<>>)
SqlNode(text) == RlsNode("CallExpression", "sql", FALSE, <<>>, TRUE, text)
Stmt(kind, table) == [kind |-> kind, table |-> table]

RlsNodes ==
    { TableNode("pgTable", users),
      TableNode("pgTable", Users),
      TableNode("mysqlTable", posts),
      \* pgTable(name, ...) whose first argument is not a string literal
      RlsNode("CallExpression", "pgTable", FALSE, <<>>, FALSE, <<>>),
      SqlNode(<<Stmt("rls", users)>>),
      SqlNode(<<Stmt("policy", users)>>),
      SqlNode(<<Stmt("rls", posts), Stmt("policy", posts)>>),
      SqlNode(<<Stmt("rls", posts), Stmt("rls", Users)>>),
      \* sql`...`: a TaggedTemplateExpression, for which the check has no listener
      RlsNode("TaggedTemplateExpression", "sql", FALSE, <<>>, TRUE,
              <<Stmt("rls", users)>>) }

RlsOptions ==
    { [sensitiveTables |-> Undefined, sensitivePatterns |-> Undefined],
      [sensitiveTables |-> Given(<<users>>), sensitivePatterns |-> Undefined],
      [sensitiveTables |-> Undefined, sensitivePatterns |-> Given(<<>>)],
      [sensitiveTables |-> Given(<<users>>),
       sensitivePatterns |-> Given(<< <<"P","o","S","t">> >>)] }

SeqsUpTo(S, n) == UNION {[1..k -> S] : k \in 0..n}

RlsInit ==
    /\ options \in RlsOptions
    /\ unit \in SeqsUpTo(RlsNodes, MaxUnitLen)
    /\ phase = "new"
    /\ run = 1
    /\ pending = {}
    /\ sameOrder = TRUE
    /\ reports = <<>>
    /\ firstReports = <<>>
    /\ tablesFound = <<>>
    /\ tablesWithRLS = {}
    /\ tablesWithPolicies = {}
    /\ joinCounts = <<>>
    /\ currentTableName = Null

\* create(context): the state of one run of the check
RlsCreate ==
    /\ phase = "new"
    /\ phase' = "visit"
    /\ pending' = DOMAIN unit
    /\ sameOrder' = TRUE
    /\ reports' = <<>>
    /\ tablesFound' = <<>>
    /\ tablesWithRLS' = {}
    /\ tablesWithPolicies' = {}
    /\ UNCHANGED <<options, unit, run, firstReports, joinCounts, currentTableName>>

\* Run 1 visits the nodes in source order; run 2 visits the same nodes in any
\* order, which stands for the unit with its statements permuted.
NextNodes == IF run = 1 THEN {Min(pending)} ELSE pending

RlsVisitCall_reportsAtOnce ==
    /\ phase = "visit"
    /\ pending # {}
    /\ \E i \in NextNodes :
         /\ unit[i].type = "CallExpression"
         /\ LET s == rlsCallExpression(
                        [tablesFound |-> tablesFound, tablesWithRLS |-> tablesWithRLS,
                         tablesWithPolicies |-> tablesWithPolicies], unit[i], i)
            IN /\ tablesFound' = s.tablesFound
               /\ tablesWithRLS' = s.tablesWithRLS
               /\ tablesWithPolicies' = s.tablesWithPolicies
               /\ reports' = reports \o
                     (IF isTableCall(unit[i]) /\ unit[i].literal
                      THEN rlsProgramExit(options, <<[key |-> unit[i].name, value |-> i]>>,
                                          s.tablesWithRLS, s.tablesWithPolicies)
                      ELSE <<>>)
         /\ pending' = pending \ {i}
         /\ sameOrder' = (sameOrder /\ i = Min(pending))
    /\ UNCHANGED <<options, unit, phase, run, firstReports, joinCounts,
                   currentTableName>>

RlsVisitCall ==
    /\ phase = "visit"
    /\ pending # {}
    /\ \E i \in NextNodes :
         /\ unit[i].type = "CallExpression"
         /\ LET s == rlsCallExpression(
                        [tablesFound |-> tablesFound, tablesWithRLS |-> tablesWithRLS,
                         tablesWithPolicies |-> tablesWithPolicies], unit[i], i)
            IN /\ tablesFound' = s.tablesFound
               /\ tablesWithRLS' = s.tablesWithRLS
               /\ tablesWithPolicies' = s.tablesWithPolicies
         /\ pending' = pending \ {i}
         /\ sameOrder' = (sameOrder /\ i = Min(pending))
    /\ UNCHANGED <<options, unit, phase, run, reports, firstReports, joinCounts,
                   currentTableName>>

\* a node of a type the check does not listen to
RlsVisitOther ==
    /\ phase = "visit"
    /\ pending # {}
    /\ \E i \in NextNodes :
         /\ unit[i].type # "CallExpression"
         /\ pending' = pending \ {i}
         /\ sameOrder' = (sameOrder /\ i = Min(pending))
    /\ UNCHANGED <<options, unit, phase, run, reports, firstReports,
                   tablesFound, tablesWithRLS, tablesWithPolicies, joinCounts,
                   currentTableName>>

RlsProgramExit ==
    /\ phase = "visit"
    /\ pending = {}
    /\ reports' = reports \o rlsProgramExit(options, tablesFound, tablesWithRLS,
                                            tablesWithPolicies)
    /\ IF run = 1
       THEN /\ firstReports' = reports'
            /\ run' = 2
            /\ phase' = "new"
       ELSE /\ phase' = "done"
            /\ UNCHANGED <<firstReports, run>>
    /\ UNCHANGED <<options, unit, pending, sameOrder, tablesFound, tablesWithRLS,
                   tablesWithPolicies, joinCounts, currentTableName>>

RlsNext == RlsCreate \/ RlsVisitCall \/ RlsVisitOther \/ RlsProgramExit

SpecRLS == RlsInit /\ [][RlsNext]_vars

(***************************************************************************)
(* limit-join-complexity                                                   *)
(*                                                                         *)
(* The unit is one statement: its nodes in pre-order, each with the index  *)
(* of its parent (0 for none).  A call `recv.verb(...)` is a CallExpression*)
(* whose callee, a MemberExpression named verb, is its child; the receiver *)
(* `recv`, when it is a call, is a child of that MemberExpression.         *)
(***************************************************************************)
DefaultMaxJoins == 3

JoinMethods == {"leftJoin", "innerJoin", "rightJoin", "fullJoin"}

\* options.maxJoins || 3
maxJoinsOf(opts) ==
    IF opts.maxJoins.present /\ opts.maxJoins.value # 0
    THEN opts.maxJoins.value ELSE DefaultMaxJoins

AstNode(type, parent, calleeType, name, chain) ==
    [type |-> type, parent |-> parent, calleeType |-> calleeType, name |-> name,
     chain |-> chain]

isJoinCall(n) ==
    /\ n.type = "CallExpression"
    /\ n.calleeType = "MemberExpression"
    /\ n.name \in JoinMethods

parentOf(ast, i) == IF i = 0 THEN 0 ELSE ast[i].parent
typeOf(ast, i) == IF i = 0 THEN "undefined" ELSE ast[i].type

\* the while loop of the listener: current is a node index, 0 for undefined
RECURSIVE walkUp(_, _, _)
walkUp(ast, current, joinCount) ==
    IF current = 0 THEN joinCount
    ELSE LET n == ast[current]
             counted == IF isJoinCall(n) THEN joinCount + 1 ELSE joinCount
         IN IF n.type = "MemberExpression"
               /\ typeOf(ast, n.parent) = "CallExpression"
            THEN walkUp(ast, n.parent, counted)
            ELSE IF n.type = "CallExpression"
            THEN IF typeOf(ast, n.parent) = "MemberExpression"
                    /\ typeOf(ast, parentOf(ast, n.parent)) = "CallExpression"
                 THEN walkUp(ast, parentOf(ast, n.parent), counted)
                 ELSE walkUp(ast, n.parent, counted)
            ELSE counted

\* joinCount of the listener called on join call `id`
joinCountAt(ast, id) == walkUp(ast, ast[id].parent, 1)

\* the reports the CallExpression listener makes on node `id`
joinCallExpression(opts, ast, id) ==
    IF isJoinCall(ast[id]) /\ joinCountAt(ast, id) > maxJoinsOf(opts)
    THEN << [messageId |-> "tooManyJoins", node |-> id,
             count |-> joinCountAt(ast, id), max |-> maxJoinsOf(opts)] >>
    ELSE <<>>

\* What encloses the chain: a statement, an await, a call taking the chain as
\* an argument (a join call of another query, or a plain function call), or a
\* property read on the chain's value.
JoinContexts == {"statement", "await", "joinArgument", "callArgument", "property"}

ContextNodes(ctx) ==
    << AstNode("Program", 0, "", "", 0),
       AstNode("ExpressionStatement", 1, "", "", 0) >> \o
    CASE ctx = "statement" -> <<>>
      [] ctx = "await" -> << AstNode("AwaitExpression", 2, "", "", 0) >>
      [] ctx = "joinArgument" ->
            << AstNode("CallExpression", 2, "MemberExpression", "leftJoin", 2),
               AstNode("MemberExpression", 3, "", "leftJoin", 2) >>
      [] ctx = "callArgument" ->
            << AstNode("CallExpression", 2, "Identifier", "foo", 0) >>
      [] ctx = "property" -> << AstNode("MemberExpression", 2, "", "then", 0) >>

\* the parent of the chain's outermost call
ContextParent(ctx) ==
    CASE ctx = "statement" -> 2
      [] ctx = "joinArgument" -> 3
      [] OTHER -> 3

\* recv.verbs[1](...).verbs[2](...) ... : the outermost call comes first
ChainNodes(verbs, base, ctxParent) ==
    [j \in 1..(2 * Len(verbs)) |->
        LET v == verbs[Len(verbs) - ((j - 1) \div 2)] IN
        IF j % 2 = 1
        THEN AstNode("CallExpression", IF j = 1 THEN ctxParent ELSE base + j - 1,
                     "MemberExpression", v, 1)
        ELSE AstNode("MemberExpression", base + j - 1, "", v, 1)]

JoinAst(ctx, verbs) ==
    ContextNodes(ctx) \o ChainNodes(verbs, Len(ContextNodes(ctx)), ContextParent(ctx))

ChainVerbs == {"from", "leftJoin", "innerJoin"}

JoinOptions ==
    { [maxJoins |-> Undefined],
      [maxJoins |-> [present |-> TRUE, value |-> 1]],
      [maxJoins |-> [present |-> TRUE, value |-> 2]] }

JoinInit ==
    /\ options \in JoinOptions
    /\ \E ctx \in JoinContexts, verbs \in SeqsUpTo(ChainVerbs, MaxChainLen) :
          unit = JoinAst(ctx, verbs)
    /\ phase = "new"
    /\ run = 1
    /\ pending = {}
    /\ sameOrder = TRUE
    /\ reports = <<>>
    /\ firstReports = <<>>
    /\ tablesFound = <<>>
    /\ tablesWithRLS = {}
    /\ tablesWithPolicies = {}
    /\ joinCounts = <<>>
    /\ currentTableName = Null

JoinCreate ==
    /\ phase = "new"
    /\ phase' = "visit"
    /\ pending' = DOMAIN unit
    /\ reports' = <<>>
    /\ joinCounts' = <<>>
    /\ UNCHANGED <<options, unit, run, sameOrder, firstReports, tablesFound,
                   tablesWithRLS, tablesWithPolicies, currentTableName>>

\* the tree walker calls the listener on each CallExpression, in pre-order
JoinVisitCall ==
    /\ phase = "visit"
    /\ pending # {}
    /\ LET id == Min(pending) IN
         /\ unit[id].type = "CallExpression"
         /\ reports' = reports \o joinCallExpression(options, unit, id)
         /\ joinCounts' = IF isJoinCall(unit[id])
                          THEN Append(joinCounts,
                                      [node |-> id, count |-> joinCountAt(unit, id)])
                          ELSE joinCounts
         /\ pending' = pending \ {id}
    /\ UNCHANGED <<options, unit, phase, run, sameOrder, firstReports, tablesFound,
                   tablesWithRLS, tablesWithPolicies, currentTableName>>

JoinVisitOther ==
    /\ phase = "visit"
    /\ pending # {}
    /\ unit[Min(pending)].type # "CallExpression"
    /\ pending' = pending \ {Min(pending)}
    /\ UNCHANGED <<options, unit, phase, run, sameOrder, reports, firstReports,
                   tablesFound, tablesWithRLS, tablesWithPolicies, joinCounts,
                   currentTableName>>

JoinFinish ==
    /\ phase = "visit"
    /\ pending = {}
    /\ phase' = "done"
    /\ UNCHANGED <<options, unit, run, pending, sameOrder, reports, firstReports,
                   tablesFound, tablesWithRLS, tablesWithPolicies, joinCounts,
                   currentTableName>>

JoinNext == JoinCreate \/ JoinVisitCall \/ JoinVisitOther \/ JoinFinish

SpecJoin == JoinInit /\ [][JoinNext]_vars

(***************************************************************************)
(* enforce-uuid-indexes                                                    *)
(*                                                                         *)
(* The unit is one call `callee(name, { columns }, extra)`.  A column is a *)
(* property `key: ctor(arg0).m1().m2()...`; its methods are listed from the*)
(* constructor outwards.                                                   *)
(***************************************************************************)
\* Helper to check if a column has UUID type (node is the base call)
isUUIDColumn_caseSensitive(col) ==
    \/ col.calleeType = "Identifier" /\ col.ctor = "uuid"
    \/ /\ col.calleeType = "Identifier"
       /\ col.ctor \in {"varchar", "text", "char"}
       /\ col.arg0.literal
       /\ LET columnName == col.arg0.value IN
             \/ includes(columnName, <<"u","u","i","d">>)
             \/ endsWith(columnName, <<"_","i","d">>)
             \/ columnName = <<"i","d">>

isUUIDColumn(col) ==
    \/ col.calleeType = "Identifier" /\ col.ctor = "uuid"
    \/ /\ col.calleeType = "Identifier"
       /\ col.ctor \in {"varchar", "text", "char"}
       /\ col.arg0.literal
       /\ LET columnName == toLowerCase(col.arg0.value) IN
             \/ includes(columnName, <<"u","u","i","d">>)
             \/ endsWith(columnName, <<"_","i","d">>)
             \/ columnName = <<"i","d">>

\* Helper to check if a column has an index (primaryKey, unique, etc.)
hasColumnLevelIndex_outermostOnly(col) ==
    /\ col.methods # <<>>
    /\ col.methods[Len(col.methods)] \in {"primaryKey", "unique"}

hasColumnLevelIndex(col) ==
    \E i \in DOMAIN col.methods : col.methods[i] \in {"primaryKey", "unique"}

\* Helper to get column name from column definition: null is [ok |-> FALSE]
getColumnName(col) ==
    IF col.arg0.literal THEN [ok |-> TRUE, value |-> col.arg0.value]
    ELSE [ok |-> FALSE, value |-> <<>>]

\* the properties named by the arguments of the outermost .on(...) of one
\* property of the index object
onProperties(entry) ==
    LET ons == {i \in DOMAIN entry.calls : entry.calls[i].name = "on"} IN
    IF entry.type # "Property" \/ entry.valueType # "CallExpression" \/ ons = {}
    THEN {}
    ELSE LET args == entry.calls[CHOOSE i \in ons : \A j \in ons : j <= i].args IN
         {args[k].property :
             k \in {a \in DOMAIN args : args[a].type = "MemberExpression"
                                        /\ args[a].propertyType = "Identifier"}}

processIndexObject(objectExpr) ==
    UNION {onProperties(objectExpr[i]) : i \in DOMAIN objectExpr}

\* Helper to extract indexed columns from table callback
extractIndexedProperties_literalBodyOnly(node) ==
    LET fn == node.extra IN
    IF fn.type \in {"ArrowFunctionExpression", "FunctionExpression"}
       /\ fn.bodyType = "ObjectExpression"
    THEN processIndexObject(fn.object)
    ELSE {}

extractIndexedProperties(node) ==
    LET fn == node.extra IN
    IF fn.type \notin {"ArrowFunctionExpression", "FunctionExpression"} THEN {}
    ELSE IF fn.bodyType = "BlockStatement"
    THEN LET returns == {i \in DOMAIN fn.body : fn.body[i].type = "ReturnStatement"} IN
         IF returns # {} /\ fn.body[Min(returns)].argument = "ObjectExpression"
         THEN processIndexObject(fn.object) ELSE {}
    ELSE IF fn.bodyType = "ObjectExpression"
    THEN processIndexObject(fn.object)
    ELSE {}

\* tableIndexedProperties.has(propertyName)
hasTableIndex_byDeclaredName(tableIndexedProperties, propertyName, columnName) ==
    columnName.ok /\ columnName.value \in tableIndexedProperties

hasTableIndex(tableIndexedProperties, propertyName, columnName) ==
    propertyName \in tableIndexedProperties

\* the reports for one property of the columns object
uuidColumnReports(tableIndexedProperties, prop, i) ==
    IF /\ prop.type = "Property"
       /\ prop.valueType = "CallExpression"
       /\ prop.keyType = "Identifier"
       /\ isUUIDColumn(prop)
       /\ getColumnName(prop).ok
       /\ getColumnName(prop).value # <<>>
       /\ ~hasColumnLevelIndex(prop)
       /\ ~hasTableIndex(tableIndexedProperties, prop.key, getColumnName(prop))
    THEN << [messageId |-> "enforceUUIDIndexes", node |-> i,
             columnName |-> getColumnName(prop).value] >>
    ELSE <<>>

RECURSIVE uuidColumnsFrom(_, _, _)
uuidColumnsFrom(tableIndexedProperties, columns, i) ==
    IF i > Len(columns) THEN <<>>
    ELSE uuidColumnReports(tableIndexedProperties, columns[i], i)
         \o uuidColumnsFrom(tableIndexedProperties, columns, i + 1)

\* the reports the CallExpression listener makes on a node
uuidCallExpression(node) ==
    IF isTableCall(node) /\ node.columnsType = "ObjectExpression"
    THEN uuidColumnsFrom(extractIndexedProperties(node), node.columns, 1)
    ELSE <<>>

\* meta.schema: one optional string property, additionalProperties: false
uuidOptionsValid(opts) == ~opts.ignorePrimaryKeys.present

Arg0(v) == [literal |-> TRUE, value |-> v]
NoArg0 == [literal |-> FALSE, value |-> <<>>]

Column(keyType, key, ctor, arg0, methods) ==
    [type |-> "Property", keyType |-> keyType, key |-> key,
     valueType |-> "CallExpression", calleeType |-> "Identifier", ctor |-> ctor,
     arg0 |-> arg0, methods |-> methods]

UuidColumns ==
    { Column("Identifier", userId, "uuid", Arg0(user_id), <<>>),
      Column("Identifier", userId, "uuid", Arg0(user_id), <<"notNull">>),
      Column("Identifier", userId, "uuid", Arg0(user_id), <<"unique", "notNull">>),
      Column("Identifier", name_id, "uuid", Arg0(name_id), <<"primaryKey">>),
      Column("Identifier", name_id, "uuid", Arg0(name_id), <<"defaultRandom", "primaryKey">>),
      Column("Identifier", user_id, "uuid", Arg0(userId), <<>>),
      Column("Identifier", userId, "uuid", NoArg0, <<>>),
      Column("Identifier", userId, "uuid", Arg0(<<>>), <<>>),
      Column("Literal", userId, "uuid", Arg0(user_id), <<>>),
      Column("Identifier", userId, "text", Arg0(user_id), <<>>),
      Column("Identifier", slug, "varchar", Arg0(slug), <<>>),
      Column("Identifier", name_id, "serial", Arg0(name_id), <<"primaryKey">>),
      Column("Identifier", slug, "varchar", Arg0(<<"x","U","u","I","d","1">>), <<>>),
      Column("Identifier", slug, "char", Arg0(<<"I","D">>), <<>>),
      Column("Identifier", slug, "text", Arg0(<<"a","_","I","d">>), <<>>),
      Column("Identifier", slug, "integer", Arg0(user_id), <<>>) }

OnArg(object, property) ==
    [type |-> "MemberExpression", object |-> object, propertyType |-> "Identifier",
     property |-> property]
IndexEntry(calls) == [type |-> "Property", valueType |-> "CallExpression", calls |-> calls]
OnCall(args) == [name |-> "on", args |-> args]

Builder(type, bodyType, body, object) ==
    [type |-> type, bodyType |-> bodyType, body |-> body, object |-> object]
ReturnObject == [type |-> "ReturnStatement", argument |-> "ObjectExpression"]

IndexObjects ==
    { <<>>,
      << IndexEntry(<<OnCall(<<OnArg("table", userId)>>)>>) >>,
      << IndexEntry(<<OnCall(<<OnArg("table", user_id)>>)>>) >>,
      << IndexEntry(<<OnCall(<<OnArg("table", name_id), OnArg("table", userId)>>),
                      [name |-> "where", args |-> <<>>]>>) >>,
      << IndexEntry(<<OnCall(<<OnArg("other", userId)>>)>>) >> }

UuidExtras ==
    {Builder("none", "", <<>>, <<>>)}
    \cup {Builder("ArrowFunctionExpression", "ObjectExpression", <<>>, o) : o \in IndexObjects}
    \cup {Builder("ArrowFunctionExpression", "BlockStatement", <<ReturnObject>>, o) :
             o \in IndexObjects \ {<<>>}}
    \cup {Builder("FunctionExpression", "BlockStatement",
                  <<[type |-> "VariableDeclaration", argument |-> ""], ReturnObject>>,
                  << IndexEntry(<<OnCall(<<OnArg("table", userId)>>)>>) >>),
          \* (table) => [index('x').on(table.userId)]
          Builder("ArrowFunctionExpression", "ArrayExpression", <<>>,
                  << IndexEntry(<<OnCall(<<OnArg("table", userId)>>)>>) >>)}

UuidOptions ==
    { [ignorePrimaryKeys |-> Undefined],
      [ignorePrimaryKeys |-> [present |-> TRUE, value |-> TRUE]],
      [ignorePrimaryKeys |-> [present |-> TRUE, value |-> FALSE]] }

UuidUnits ==
    { << [type |-> "CallExpression", callee |-> callee, columnsType |-> "ObjectExpression",
          columns |-> columns, extra |-> extra] >> :
        callee \in {"pgTable", "mysqlTable", "defineTable"},
        columns \in SeqsUpTo(UuidColumns, MaxColumns),
        extra \in UuidExtras }

UuidInit ==
    /\ options \in UuidOptions
    /\ unit \in UuidUnits
    /\ phase = "new"
    /\ run = 1
    /\ pending = {}
    /\ sameOrder = TRUE
    /\ reports = <<>>
    /\ firstReports = <<>>
    /\ tablesFound = <<>>
    /\ tablesWithRLS = {}
    /\ tablesWithPolicies = {}
    /\ joinCounts = <<>>
    /\ currentTableName = Null

UuidCreate ==
    /\ phase = "new"
    /\ uuidOptionsValid(options)
    /\ phase' = "visit"
    /\ pending' = DOMAIN unit
    /\ reports' = <<>>
    /\ UNCHANGED <<options, unit, run, sameOrder, firstReports, tablesFound,
                   tablesWithRLS, tablesWithPolicies, joinCounts,
                   currentTableName>>

\* options that meta.schema does not allow: the check is not run
UuidRejectOptions ==
    /\ phase = "new"
    /\ ~uuidOptionsValid(options)
    /\ phase' = "invalid"
    /\ UNCHANGED <<options, unit, run, pending, sameOrder, reports, firstReports,
                   tablesFound, tablesWithRLS, tablesWithPolicies, joinCounts,
                   currentTableName>>

UuidVisitCall ==
    /\ phase = "visit"
    /\ pending # {}
    /\ LET i == Min(pending) IN
         /\ reports' = reports \o uuidCallExpression(unit[i])
         /\ pending' = pending \ {i}
    /\ UNCHANGED <<options, unit, phase, run, sameOrder, firstReports, tablesFound,
                   tablesWithRLS, tablesWithPolicies, joinCounts,
                   currentTableName>>

UuidFinish ==
    /\ phase = "visit"
    /\ pending = {}
    /\ phase' = "done"
    /\ UNCHANGED <<options, unit, run, pending, sameOrder, reports, firstReports,
                   tablesFound, tablesWithRLS, tablesWithPolicies, joinCounts,
                   currentTableName>>

UuidNext == UuidCreate \/ UuidRejectOptions \/ UuidVisitCall \/ UuidFinish

SpecUUID == UuidInit /\ [][UuidNext]_vars

(***************************************************************************)
(* enforce-delete-with-where and enforce-update-with-where                 *)
(*                                                                         *)
(* The unit is one expression: a fluent chain recv.s1(...).s2(...)...,     *)
(* whose last segment may be a property read that is not called; a call of *)
(* a bare identifier (receiver ""); or a unary `delete x.y`.               *)
(***************************************************************************)
SegmentFollows(node, i, verb) ==
    \E j \in DOMAIN node.segments : j > i /\ node.segments[j].name = verb

\* a mutating operation root: a call whose callee is a property access
\* named verb
isMutatingRoot(node, i, verb) ==
    /\ node.type = "CallChain"
    /\ node.receiver # ""
    /\ node.segments[i].called
    /\ node.segments[i].name = verb

deleteReportsAt_dbOnly(node, i) ==
    IF isMutatingRoot(node, i, "delete") /\ node.receiver = "db"
       /\ ~SegmentFollows(node, i, "where")
    THEN << [messageId |-> "enforceDeleteWithWhere", node |-> i] >>
    ELSE <<>>

deleteReportsAt(node, i) ==
    IF isMutatingRoot(node, i, "delete") /\ ~SegmentFollows(node, i, "where")
    THEN << [messageId |-> "enforceDeleteWithWhere", node |-> i] >>
    ELSE <<>>

updateReportsAt_withoutSet(node, i) ==
    IF isMutatingRoot(node, i, "update") /\ ~SegmentFollows(node, i, "where")
    THEN << [messageId |-> "enforceUpdateWithWhere", node |-> i] >>
    ELSE <<>>

updateReportsAt(node, i) ==
    IF /\ isMutatingRoot(node, i, "update")
       /\ SegmentFollows(node, i, "set")
       /\ ~SegmentFollows(node, i, "where")
    THEN << [messageId |-> "enforceUpdateWithWhere", node |-> i] >>
    ELSE <<>>

\* the reports of one check on the segments of a chain, outermost call first
RECURSIVE mutatingReports(_, _, _)
mutatingReports(check, node, i) ==
    IF i = 0 THEN <<>>
    ELSE (IF check = "enforce-delete-with-where" THEN deleteReportsAt(node, i)
          ELSE updateReportsAt(node, i))
         \o mutatingReports(check, node, i - 1)

Segment(name, called) == [name |-> name, called |-> called]

\* only the last segment of a chain can be left uncalled
ChainOf(receiver, names, lastCalled) ==
    [type |-> "CallChain", receiver |-> receiver,
     segments |-> [i \in DOMAIN names |->
                      Segment(names[i], i < Len(names) \/ lastCalled)]]

MutatingUnits ==
    { <<ChainOf(receiver, <<root>> \o rest, lastCalled)>> :
        receiver \in {"db", "database", "dataSource"},
        root \in {"delete", "update", "select"},
        rest \in SeqsUpTo({"set", "where", "returning"}, MaxSegments - 1),
        lastCalled \in BOOLEAN }
    \cup { <<ChainOf("", <<root>>, TRUE)>> : root \in {"delete", "update"} }
    \cup { <<[type |-> "UnaryExpression", receiver |-> "db",
              segments |-> <<Segment("something", FALSE)>>]>> }

MutatingInit ==
    /\ options \in { [check |-> "enforce-delete-with-where"],
                     [check |-> "enforce-update-with-where"] }
    /\ unit \in MutatingUnits
    /\ phase = "new"
    /\ run = 1
    /\ pending = {}
    /\ sameOrder = TRUE
    /\ reports = <<>>
    /\ firstReports = <<>>
    /\ tablesFound = <<>>
    /\ tablesWithRLS = {}
    /\ tablesWithPolicies = {}
    /\ joinCounts = <<>>
    /\ currentTableName = Null

MutatingCreate ==
    /\ phase = "new"
    /\ phase' = "visit"
    /\ pending' = DOMAIN unit
    /\ reports' = <<>>
    /\ UNCHANGED <<options, unit, run, sameOrder, firstReports, tablesFound,
                   tablesWithRLS, tablesWithPolicies, joinCounts,
                   currentTableName>>

MutatingVisitChain ==
    /\ phase = "visit"
    /\ pending # {}
    /\ LET i == Min(pending) IN
         /\ unit[i].type = "CallChain"
         /\ reports' = reports \o mutatingReports(options.check, unit[i],
                                                  Len(unit[i].segments))
         /\ pending' = pending \ {i}
    /\ UNCHANGED <<options, unit, phase, run, sameOrder, firstReports, tablesFound,
                   tablesWithRLS, tablesWithPolicies, joinCounts,
                   currentTableName>>

MutatingVisitOther ==
    /\ phase = "visit"
    /\ pending # {}
    /\ unit[Min(pending)].type # "CallChain"
    /\ pending' = pending \ {Min(pending)}
    /\ UNCHANGED <<options, unit, phase, run, sameOrder, reports, firstReports,
                   tablesFound, tablesWithRLS, tablesWithPolicies, joinCounts,
                   currentTableName>>

MutatingFinish ==
    /\ phase = "visit"
    /\ pending = {}
    /\ phase' = "done"
    /\ UNCHANGED <<options, unit, run, pending, sameOrder, reports, firstReports,
                   tablesFound, tablesWithRLS, tablesWithPolicies, joinCounts,
                   currentTableName>>

MutatingNext ==
    MutatingCreate \/ MutatingVisitChain \/ MutatingVisitOther \/ MutatingFinish

SpecMutating == MutatingInit /\ [][MutatingNext]_vars

(***************************************************************************)
(* prevent-rls-bypass                                                      *)
(*                                                                         *)
(* The unit is a sequence of nodes; each carries the comments that         *)
(* sourceCode.getCommentsBefore returns for it.                            *)
(***************************************************************************)
Whitespace == {" ", "\t", "\n"}

\* RegExp.prototype.test of /w1/i or /w1\s+w2/i: pattern is <<w1>> or <<w1, w2>>
testPattern(pattern, s) ==
    LET t == toLowerCase(s)
        w1 == toLowerCase(pattern[1])
    IN  IF Len(pattern) = 1 THEN includes(t, w1)
        ELSE LET w2 == toLowerCase(pattern[2]) IN
             \E i \in 1..Len(t), j \in 1..Len(t) :
                /\ i + Len(w1) < j
                /\ j + Len(w2) - 1 <= Len(t)
                /\ SubSeq(t, i, i + Len(w1) - 1) = w1
                /\ \A k \in (i + Len(w1))..(j - 1) : t[k] \in Whitespace
                /\ SubSeq(t, j, j + Len(w2) - 1) = w2

\* Pattern to check for RLS bypass explanations in comments
validBypassReasons ==
    << << <<"R","L","S">>, <<"b","y","p","a","s","s">> >>,
       << <<"s","e","c","u","r","i","t","y">> >>,
       << <<"a","d","m","i","n">> >>,
       << <<"s","e","r","v","i","c","e">>, <<"r","o","l","e">> >>,
       << <<"s","y","s","t","e","m">>, <<"o","p","e","r","a","t","i","o","n">> >>,
       << <<"m","i","g","r","a","t","i","o","n">> >>,
       << <<"b","a","c","k","g","r","o","u","n","d">>, <<"j","o","b">> >>,
       << <<"c","r","o","n">> >> >>

securityDefinerPattern ==
    << <<"S","E","C","U","R","I","T","Y">>, <<"D","E","F","I","N","E","R">> >>

bypassIndicators == {"serviceRole", "adminClient", "serviceClient", "bypassRLS"}

hasValidBypassComment_firstCommentOnly(node) ==
    /\ node.comments # <<>>
    /\ \E p \in DOMAIN validBypassReasons :
          testPattern(validBypassReasons[p], node.comments[1])

hasValidBypassComment(node) ==
    \E c \in DOMAIN node.comments :
        \E p \in DOMAIN validBypassReasons :
            testPattern(validBypassReasons[p], node.comments[c])

\* Check for .rls().bypass() pattern
isRlsBypassShape(node) ==
    /\ node.propertyType = "Identifier"
    /\ node.propertyName = "bypass"
    /\ node.object.type = "CallExpression"
    /\ node.object.calleeType = "MemberExpression"
    /\ node.object.calleePropertyType = "Identifier"
    /\ node.object.calleePropertyName = "rls"

\* Check for service/admin role usage
isBypassIndicator(node) ==
    /\ node.propertyType = "Identifier"
    /\ node.propertyName \in bypassIndicators

bypassIndicatorReports(node, id) ==
    IF isBypassIndicator(node)
    THEN << [messageId |-> "bypassDetected", node |-> id, method |-> node.propertyName] >>
    ELSE <<>>

\* the reports the MemberExpression listener makes on a node
bypassMemberExpression(node, id) ==
    (IF isRlsBypassShape(node) /\ ~hasValidBypassComment(node)
     THEN << [messageId |-> "missingRLSComment", node |-> id, method |-> ""] >>
     ELSE <<>>)
    \o bypassIndicatorReports(node, id)

\* authArg.properties.some(auth: { autoRefreshToken: false })
isAutoRefreshFalse(authProp) ==
    /\ authProp.type = "Property"
    /\ authProp.keyType = "Identifier"
    /\ authProp.key = "autoRefreshToken"
    /\ authProp.valueType = "Literal"
    /\ authProp.value = "false"

isServiceRoleAuth(prop) ==
    /\ prop.type = "Property"
    /\ prop.keyType = "Identifier"
    /\ prop.key = "auth"
    /\ prop.valueType = "ObjectExpression"
    /\ \E k \in DOMAIN prop.properties : isAutoRefreshFalse(prop.properties[k])

\* Check for Supabase service role key usage
isServiceRoleClient(node) ==
    /\ node.calleeType = "MemberExpression"
    /\ node.calleePropertyType = "Identifier"
    /\ node.calleeName = "createClient"
    /\ Len(node.arguments) >= 2
    /\ node.arguments[2].type = "ObjectExpression"
    /\ \E k \in DOMAIN node.arguments[2].properties :
          isServiceRoleAuth(node.arguments[2].properties[k])

\* Check for SECURITY DEFINER functions
isSecurityDefiner(node) ==
    /\ node.calleeType = "Identifier"
    /\ node.calleeName = "sql"
    /\ Len(node.arguments) >= 1
    /\ node.arguments[1].type = "TemplateLiteral"
    /\ testPattern(securityDefinerPattern, node.arguments[1].text)

\* the reports the CallExpression listener makes on a node
bypassCallExpression(node, id) ==
    (IF isServiceRoleClient(node) /\ ~hasValidBypassComment(node)
     THEN << [messageId |-> "bypassDetected", node |-> id,
              method |-> "service role client"] >>
     ELSE <<>>)
    \o (IF isSecurityDefiner(node) /\ ~hasValidBypassComment(node)
        THEN << [messageId |-> "bypassDetected", node |-> id,
                 method |-> "SECURITY DEFINER"] >>
        ELSE <<>>)

\* The nodes a unit is drawn from.
\* member is <<property.type, property.name, object>>, call is
\* <<callee.type, callee.property.type, callee name, arguments>>
BypassNode(type, comments, member, call) ==
    [type |-> type, comments |-> comments, propertyType |-> member[1],
     propertyName |-> member[2], object |-> member[3], calleeType |-> call[1],
     calleePropertyType |-> call[2], calleeName |-> call[3], arguments |-> call[4]]

BypassNodes ==
    LET ObjectOf(type, calleeType, calleePropertyType, calleePropertyName) ==
            [type |-> type, calleeType |-> calleeType,
             calleePropertyType |-> calleePropertyType,
             calleePropertyName |-> calleePropertyName]
        Ident == ObjectOf("Identifier", "", "", "")
        \* <expr>.name()
        MethodCall(name) ==
            ObjectOf("CallExpression", "MemberExpression", "Identifier", name)
        \* <object>.propertyName
        Member(comments, object, propertyName) ==
            BypassNode("MemberExpression", comments,
                       <<"Identifier", propertyName, object>>, <<"", "", "", <<>> >>)
        \* <expr>.calleeName(arguments)
        Method(comments, calleeName, arguments) ==
            BypassNode("CallExpression", comments, <<"", "", Ident>>,
                       <<"MemberExpression", "Identifier", calleeName, arguments>>)
        \* calleeName(arguments)
        Function(comments, calleeName, arguments) ==
            BypassNode("CallExpression", comments, <<"", "", Ident>>,
                       <<"Identifier", "", calleeName, arguments>>)
        Argument(type, properties, text) ==
            [type |-> type, properties |-> properties, text |-> text]
        Property(key, valueType, value, properties) ==
            [type |-> "Property", keyType |-> "Identifier", key |-> key,
             valueType |-> valueType, value |-> value, properties |-> properties]
        \* { auth: { autoRefreshToken: <value> } }
        Auth(value) ==
            Argument("ObjectExpression",
                << Property("auth", "ObjectExpression", "",
                      << Property("autoRefreshToken", "Literal", value, <<>>) >>) >>,
                <<>>)
        Url == Argument("Identifier", <<>>, <<>>)
        Template(text) == Argument("TemplateLiteral", <<>>, text)
        migration == <<" ","M","i","g","r","a","t","i","o","n",":"," ","x">>
        todo == <<" ","t","o","d","o">>
        rlsBypass == <<"r","l","s"," ","\n","B","y","p","a","s","s">>
        servicerole == <<"s","e","r","v","i","c","e","r","o","l","e">>
        securityDefiner ==
            <<"f","(",")"," ","S","e","c","u","r","i","t","y","\t",
              "D","E","F","I","N","E","R">>
        select1 == <<"S","E","L","E","C","T"," ","1">>
    IN
    { Member(<<>>, Ident, "serviceRole"),
      Member(<<migration>>, Ident, "serviceRole"),
      Member(<<todo>>, Ident, "bypassRLS"),
      Member(<<>>, Ident, "query"),
      Member(<<>>, MethodCall("rls"), "bypass"),
      Member(<<todo, rlsBypass>>, MethodCall("rls"), "bypass"),
      Member(<<servicerole>>, MethodCall("rls"), "bypass"),
      Member(<<>>, MethodCall("policy"), "bypass"),
      Method(<<>>, "createClient", <<Url, Auth("false")>>),
      Method(<<migration>>, "createClient", <<Url, Auth("false")>>),
      Method(<<>>, "createClient", <<Url, Auth("true")>>),
      Method(<<>>, "createClient", <<Url>>),
      Function(<<>>, "sql", <<Template(securityDefiner)>>),
      Function(<<rlsBypass>>, "sql", <<Template(securityDefiner)>>),
      Function(<<>>, "sql", <<Template(select1)>>),
      BypassNode("Identifier", <<>>, <<"", "", Ident>>, <<"", "", "", <<>> >>) }

BypassInit ==
    /\ options = <<>>
    /\ unit \in SeqsUpTo(BypassNodes, MaxBypassUnitLen)
    /\ phase = "new"
    /\ run = 1
    /\ pending = {}
    /\ sameOrder = TRUE
    /\ reports = <<>>
    /\ firstReports = <<>>
    /\ tablesFound = <<>>
    /\ tablesWithRLS = {}
    /\ tablesWithPolicies = {}
    /\ joinCounts = <<>>
    /\ currentTableName = Null

BypassCreate ==
    /\ phase = "new"
    /\ phase' = "visit"
    /\ pending' = DOMAIN unit
    /\ reports' = <<>>
    /\ UNCHANGED <<options, unit, run, sameOrder, firstReports, tablesFound,
                   tablesWithRLS, tablesWithPolicies, joinCounts, currentTableName>>

BypassVisitMember ==
    /\ phase = "visit"
    /\ pending # {}
    /\ LET id == Min(pending) IN
         /\ unit[id].type = "MemberExpression"
         /\ reports' = reports \o bypassMemberExpression(unit[id], id)
         /\ pending' = pending \ {id}
    /\ UNCHANGED <<options, unit, phase, run, sameOrder, firstReports, tablesFound,
                   tablesWithRLS, tablesWithPolicies, joinCounts, currentTableName>>

BypassVisitCall ==
    /\ phase = "visit"
    /\ pending # {}
    /\ LET id == Min(pending) IN
         /\ unit[id].type = "CallExpression"
         /\ reports' = reports \o bypassCallExpression(unit[id], id)
         /\ pending' = pending \ {id}
    /\ UNCHANGED <<options, unit, phase, run, sameOrder, firstReports, tablesFound,
                   tablesWithRLS, tablesWithPolicies, joinCounts, currentTableName>>

\* a node of a type the check does not listen to
BypassVisitOther ==
    /\ phase = "visit"
    /\ pending # {}
    /\ unit[Min(pending)].type \notin {"MemberExpression", "CallExpression"}
    /\ pending' = pending \ {Min(pending)}
    /\ UNCHANGED <<options, unit, phase, run, sameOrder, reports, firstReports,
                   tablesFound, tablesWithRLS, tablesWithPolicies, joinCounts,
                   currentTableName>>

BypassFinish ==
    /\ phase = "visit"
    /\ pending = {}
    /\ phase' = "done"
    /\ UNCHANGED <<options, unit, run, pending, sameOrder, reports, firstReports,
                   tablesFound, tablesWithRLS, tablesWithPolicies, joinCounts,
                   currentTableName>>

BypassNext ==
    BypassCreate \/ BypassVisitMember \/ BypassVisitCall \/ BypassVisitOther
    \/ BypassFinish

SpecBypass == BypassInit /\ [][BypassNext]_vars

(***************************************************************************)
(* enforce-snake-case-naming and require-timestamp-columns                 *)
(*                                                                         *)
(* The unit is one call `callee(name, { columns })`.  A column is a        *)
(* property `key: ctor(arg0)`; options.check names the check that is run.  *)
(***************************************************************************)
Digits == {"0","1","2","3","4","5","6","7","8","9"}

\* /^[a-z][a-z0-9_]*$/.test(name)
isValidSnakeCase(name) ==
    /\ Len(name) >= 1
    /\ name[1] \in SeqToSet(Lowers)
    /\ \A i \in 2..Len(name) : name[i] \in SeqToSet(Lowers) \cup Digits \cup {"_"}

created_at == <<"c","r","e","a","t","e","d","_","a","t">>
createdAt  == <<"c","r","e","a","t","e","d","A","t">>
updated_at == <<"u","p","d","a","t","e","d","_","a","t">>
updatedAt  == <<"u","p","d","a","t","e","d","A","t">>

\* Allow common camelCase exceptions like createdAt, updatedAt
allowedCamelCase == <<createdAt, updatedAt>>

\* node is 0 for the table name argument, i for the key of column i
snakeReport(node, name) == [messageId |-> "useSnakeCase", node |-> node, name |-> name]

\* the reports for the properties of the columns object, from property i on
RECURSIVE snakeColumnsFrom(_, _)
snakeColumnsFrom(columns, i) ==
    IF i > Len(columns) THEN <<>>
    ELSE (IF /\ columns[i].type = "Property"
             /\ columns[i].keyType = "Identifier"
             /\ ~isValidSnakeCase(columns[i].key)
             /\ ~arrayIncludes(allowedCamelCase, columns[i].key)
          THEN << snakeReport(i, columns[i].key) >> ELSE <<>>)
         \o snakeColumnsFrom(columns, i + 1)

\* the table-name part of the listener
snakeTableName_withExceptions(node) ==
    IF node.nameArg.literal /\ ~isValidSnakeCase(node.nameArg.value)
       /\ ~arrayIncludes(allowedCamelCase, node.nameArg.value)
    THEN << snakeReport(0, node.nameArg.value) >> ELSE <<>>

snakeTableName(node) ==
    IF node.nameArg.literal /\ ~isValidSnakeCase(node.nameArg.value)
    THEN << snakeReport(0, node.nameArg.value) >> ELSE <<>>

\* the reports the CallExpression listener of enforce-snake-case-naming makes
snakeCallExpression(node) ==
    IF ~isTableCall(node) THEN <<>>
    ELSE snakeTableName(node)
         \o (IF node.columnsType = "ObjectExpression"
             THEN snakeColumnsFrom(node.columns, 1) ELSE <<>>)

\* columnNames of require-timestamp-columns: the keys that are identifiers or
\* string literals
timestampColumnNames(columns) ==
    {columns[i].key : i \in {j \in DOMAIN columns :
                                /\ columns[j].type = "Property"
                                /\ columns[j].keyType \in {"Identifier", "Literal"}}}

\* checkTables && !checkTables.includes(tableName)
timestampSkipped_checkTablesFirst(opts, tableName) ==
    IF opts.checkTables.present
    THEN ~arrayIncludes(opts.checkTables.value, tableName)
    ELSE arrayIncludes(OrDefault(opts.ignoreTables, <<>>), tableName)

timestampSkipped(opts, tableName) ==
    \/ arrayIncludes(OrDefault(opts.ignoreTables, <<>>), tableName)
    \/ opts.checkTables.present /\ ~arrayIncludes(opts.checkTables.value, tableName)

\* the reports the CallExpression listener of require-timestamp-columns makes
timestampCallExpression(opts, node, id) ==
    IF /\ isTableCall(node)
       /\ node.nameArg.literal
       /\ ~timestampSkipped(opts, node.nameArg.value)
       /\ node.columnsType = "ObjectExpression"
       /\ LET columnNames == timestampColumnNames(node.columns)
              hasCreatedAt == created_at \in columnNames \/ createdAt \in columnNames
              hasUpdatedAt == updated_at \in columnNames \/ updatedAt \in columnNames
          IN ~hasCreatedAt \/ ~hasUpdatedAt
    THEN << [messageId |-> "missingTimestamps", node |-> id,
             name |-> node.nameArg.value] >>
    ELSE <<>>

SchemaColumns ==
    LET Col(type, keyType, key, arg0) ==
            [type |-> type, keyType |-> keyType, key |-> key, arg0 |-> arg0]
    IN { Col("Property", "Identifier", created_at, Arg0(created_at)),
         Col("Property", "Identifier", createdAt, Arg0(createdAt)),
         Col("Property", "Identifier", updated_at, Arg0(updated_at)),
         Col("Property", "Identifier", updatedAt, Arg0(updatedAt)),
         Col("Property", "Literal", updated_at, Arg0(updated_at)),
         Col("Property", "Identifier", userId, Arg0(user_id)),
         Col("Property", "Identifier", user_id, Arg0(userId)),
         Col("Property", "Literal", userId, Arg0(userId)),
         Col("Property", "Identifier", <<"t","_","v","2">>, NoArg0),
         Col("SpreadElement", "", <<>>, NoArg0) }

SchemaUnits ==
    { << [type |-> "CallExpression", callee |-> callee, nameArg |-> nameArg,
          columnsType |-> columnsType, columns |-> columns] >> :
        callee \in {"pgTable", "sqliteTable", "defineTable"},
        nameArg \in {Arg0(users), Arg0(Users), Arg0(createdAt), Arg0(user_id),
                     Arg0(<<"2","f","a">>), Arg0(<<>>), NoArg0},
        columnsType \in {"ObjectExpression", "Identifier"},
        columns \in SeqsUpTo(SchemaColumns, MaxColumns) }

SchemaOptions ==
    { [check |-> "enforce-snake-case-naming", checkTables |-> Undefined,
       ignoreTables |-> Undefined] }
    \cup { [check |-> "require-timestamp-columns", checkTables |-> c, ignoreTables |-> i] :
             c \in {Undefined, Given(<<>>), Given(<<users, user_id>>)},
             i \in {Undefined, Given(<<users>>)} }

SchemaInit ==
    /\ options \in SchemaOptions
    /\ unit \in SchemaUnits
    /\ phase = "new"
    /\ run = 1
    /\ pending = {}
    /\ sameOrder = TRUE
    /\ reports = <<>>
    /\ firstReports = <<>>
    /\ tablesFound = <<>>
    /\ tablesWithRLS = {}
    /\ tablesWithPolicies = {}
    /\ joinCounts = <<>>
    /\ currentTableName = Null

SchemaCreate ==
    /\ phase = "new"
    /\ phase' = "visit"
    /\ pending' = DOMAIN unit
    /\ reports' = <<>>
    /\ UNCHANGED <<options, unit, run, sameOrder, firstReports, tablesFound,
                   tablesWithRLS, tablesWithPolicies, joinCounts, currentTableName>>

SchemaVisitCall ==
    /\ phase = "visit"
    /\ pending # {}
    /\ LET id == Min(pending) IN
         /\ reports' = reports \o
               (IF options.check = "enforce-snake-case-naming"
                THEN snakeCallExpression(unit[id])
                ELSE timestampCallExpression(options, unit[id], id))
         /\ pending' = pending \ {id}
    /\ UNCHANGED <<options, unit, phase, run, sameOrder, firstReports, tablesFound,
                   tablesWithRLS, tablesWithPolicies, joinCounts, currentTableName>>

SchemaFinish ==
    /\ phase = "visit"
    /\ pending = {}
    /\ phase' = "done"
    /\ UNCHANGED <<options, unit, run, pending, sameOrder, reports, firstReports,
                   tablesFound, tablesWithRLS, tablesWithPolicies, joinCounts,
                   currentTableName>>

SchemaNext == SchemaCreate \/ SchemaVisitCall \/ SchemaFinish

SpecSchema == SchemaInit /\ [][SchemaNext]_vars

(***************************************************************************)
(* enforce-index-naming                                                    *)
(*                                                                         *)
(* The unit is the calls of a file in the order the tree walker visits     *)
(* them: a table declaration comes before the calls that lie inside it.    *)
(* `inside` says that a call lies inside the table declaration that was    *)
(* visited last before it.  The unit is linted twice.                      *)
(***************************************************************************)
\* String.prototype.startsWith
startsWith(s, prefix) ==
    /\ Len(prefix) <= Len(s)
    /\ SubSeq(s, 1, Len(prefix)) = prefix

\* /^(idx|uq|uk)_[a-z][a-z0-9_]*(_[a-z][a-z0-9_]*)*$/.test(indexName)
validPattern(indexName) ==
    \E p \in {<<"i","d","x">>, <<"u","q">>, <<"u","k">>} :
        /\ startsWith(indexName, p \o <<"_">>)
        /\ Len(indexName) >= Len(p) + 2
        /\ indexName[Len(p) + 2] \in SeqToSet(Lowers)
        /\ \A i \in (Len(p) + 3)..Len(indexName) :
              indexName[i] \in SeqToSet(Lowers) \cup Digits \cup {"_"}

\* Check index naming: the reports for an index call with a string-literal name
indexNameReports_bothGates(tableName, callee, indexName, id) ==
    LET prefix == IF callee = "index" THEN <<"i","d","x">> ELSE <<"u","q">>
        expectedPrefix == prefix \o <<"_">> \o tableName.value \o <<"_">>
        report == [messageId |-> "invalidIndexName", node |-> id, name |-> indexName]
    IN  (IF ~validPattern(indexName) THEN <<report>> ELSE <<>>)
        \o (IF tableName.ok /\ tableName.value # <<>>
               /\ ~startsWith(indexName, expectedPrefix)
            THEN <<report>> ELSE <<>>)

indexNameReports(tableName, callee, indexName, id) ==
    LET prefix == IF callee = "index" THEN <<"i","d","x">> ELSE <<"u","q">>
        expectedPrefix == prefix \o <<"_">> \o tableName.value \o <<"_">>
        report == [messageId |-> "invalidIndexName", node |-> id, name |-> indexName]
    IN  IF ~validPattern(indexName) THEN <<report>>
        ELSE IF tableName.ok /\ tableName.value # <<>>
                /\ ~startsWith(indexName, expectedPrefix)
        THEN <<report>>
        ELSE <<>>

indexCallExpression_firstTableOnly(tableName, node, id) ==
    LET remembered == IF isTableCall(node) /\ node.nameArg.literal /\ ~tableName.ok
                      THEN NotNull(node.nameArg.value) ELSE tableName
    IN  [currentTableName |-> remembered,
         reports |->
            IF node.callee \in {"index", "uniqueIndex", "unique"} /\ node.nameArg.literal
            THEN indexNameReports(remembered, node.callee, node.nameArg.value, id)
            ELSE <<>>]

\* The CallExpression listener: the remembered table name after the call and
\* the reports made.  tableName is the remembered name before the call.
indexCallExpression(tableName, node, id) ==
    LET remembered == IF isTableCall(node) /\ node.nameArg.literal
                      THEN NotNull(node.nameArg.value) ELSE tableName
    IN  [currentTableName |-> remembered,
         reports |->
            IF node.callee \in {"index", "uniqueIndex", "unique"} /\ node.nameArg.literal
            THEN indexNameReports(remembered, node.callee, node.nameArg.value, id)
            ELSE <<>>]

IndexNodes ==
    LET Call(callee, nameArg, inside) ==
            [type |-> "CallExpression", callee |-> callee, nameArg |-> nameArg,
             inside |-> inside]
        idx_users_a == <<"i","d","x","_","u","s","e","r","s","_","a">>
        idx_users == <<"i","d","x","_","u","s","e","r","s">>
        uq_users_a == <<"u","q","_","u","s","e","r","s","_","a">>
        uk_users_a == <<"u","k","_","u","s","e","r","s","_","a">>
        uq_posts_a1 == <<"u","q","_","p","o","s","t","s","_","a","1">>
        a_idx == <<"a","_","i","d","x">>
    IN  { Call("pgTable", Arg0(users), FALSE),
          Call("sqliteTable", Arg0(posts), FALSE),
          Call("pgTable", Arg0(<<>>), FALSE),
          Call("pgTable", NoArg0, FALSE) }
        \cup { Call(c[1], c[2], inside) :
                 c \in { <<"index", Arg0(idx_users_a)>>,
                         <<"index", Arg0(idx_users)>>,
                         <<"index", Arg0(uq_users_a)>>,
                         <<"index", Arg0(a_idx)>>,
                         <<"index", NoArg0>>,
                         <<"uniqueIndex", Arg0(uq_users_a)>>,
                         <<"uniqueIndex", Arg0(uk_users_a)>>,
                         <<"unique", Arg0(uq_posts_a1)>> },
                 inside \in BOOLEAN }

\* a call can lie inside the table declaration visited last only if every
\* call since that declaration lies inside it too
IndexUnits ==
    { u \in SeqsUpTo(IndexNodes, MaxUnitLen) :
        \A i \in DOMAIN u :
            u[i].inside => /\ i > 1
                           /\ isTableCall(u[i - 1]) \/ u[i - 1].inside }

IndexInit ==
    /\ options = <<>>
    /\ unit \in IndexUnits
    /\ phase = "new"
    /\ run = 1
    /\ pending = {}
    /\ sameOrder = TRUE
    /\ reports = <<>>
    /\ firstReports = <<>>
    /\ tablesFound = <<>>
    /\ tablesWithRLS = {}
    /\ tablesWithPolicies = {}
    /\ joinCounts = <<>>
    /\ currentTableName = Null

\* create(context): the state of one run of the check
IndexCreate_keepTableName ==
    /\ phase = "new"
    /\ phase' = "visit"
    /\ pending' = DOMAIN unit
    /\ reports' = <<>>
    /\ UNCHANGED <<options, unit, run, sameOrder, firstReports, tablesFound,
                   tablesWithRLS, tablesWithPolicies, joinCounts, currentTableName>>

IndexCreate ==
    /\ phase = "new"
    /\ phase' = "visit"
    /\ pending' = DOMAIN unit
    /\ reports' = <<>>
    /\ currentTableName' = Null
    /\ UNCHANGED <<options, unit, run, sameOrder, firstReports, tablesFound,
                   tablesWithRLS, tablesWithPolicies, joinCounts>>

IndexVisitCall ==
    /\ phase = "visit"
    /\ pending # {}
    /\ LET id == Min(pending)
           r == indexCallExpression(currentTableName, unit[id], id)
       IN /\ currentTableName' = r.currentTableName
          /\ reports' = reports \o r.reports
          /\ pending' = pending \ {id}
    /\ UNCHANGED <<options, unit, phase, run, sameOrder, firstReports, tablesFound,
                   tablesWithRLS, tablesWithPolicies, joinCounts>>

\* the end of a run: the unit is linted a second time
IndexFinish ==
    /\ phase = "visit"
    /\ pending = {}
    /\ IF run = 1
       THEN /\ firstReports' = reports
            /\ run' = 2
            /\ phase' = "new"
       ELSE /\ phase' = "done"
            /\ UNCHANGED <<firstReports, run>>
    /\ UNCHANGED <<options, unit, pending, sameOrder, reports, tablesFound,
                   tablesWithRLS, tablesWithPolicies, joinCounts, currentTableName>>

IndexNext == IndexCreate \/ IndexVisitCall \/ IndexFinish

SpecIndex == IndexInit /\ [][IndexNext]_vars

(***************************************************************************)
(* no-select-star                                                          *)
(*                                                                         *)
(* The unit is one statement, its nodes in pre-order with parent indices,  *)
(* as for limit-join-complexity; a call also has its number of arguments   *)
(* and, when it is a segment of the fluent chain, its position in it.      *)
(***************************************************************************)
selectQueryMethods ==
    <<"from", "where", "orderBy", "limit", "offset", "leftJoin", "innerJoin">>

\* while (parent && parent.type === "MemberExpression") parent = parent.parent
RECURSIVE skipMemberExpressions(_, _)
skipMemberExpressions(ast, parent) ==
    IF typeOf(ast, parent) = "MemberExpression"
    THEN skipMemberExpressions(ast, parentOf(ast, parent))
    ELSE parent

\* Look for chained methods like from(), where(), etc.
RECURSIVE hasQueryMethod(_, _)
hasQueryMethod(ast, current) ==
    IF typeOf(ast, current) # "CallExpression" THEN FALSE
    ELSE IF /\ ast[current].calleeType = "MemberExpression"
            /\ arrayIncludes(selectQueryMethods, ast[current].name)
    THEN TRUE
    ELSE IF typeOf(ast, parentOf(ast, current)) = "CallExpression"
    THEN hasQueryMethod(ast, parentOf(ast, current))
    ELSE IF /\ typeOf(ast, parentOf(ast, current)) = "MemberExpression"
            /\ typeOf(ast, parentOf(ast, parentOf(ast, current))) = "CallExpression"
    THEN hasQueryMethod(ast, parentOf(ast, parentOf(ast, current)))
    ELSE FALSE

\* the reports the CallExpression listener makes on node id
selectCallExpression(ast, id) ==
    IF /\ ast[id].calleeType = "MemberExpression"
       /\ ast[id].name = "select"
       /\ ast[id].arguments = 0
       /\ hasQueryMethod(ast, skipMemberExpressions(ast, parentOf(ast, id)))
    THEN << [messageId |-> "noSelectStar", node |-> id] >>
    ELSE <<>>

\* ctx holds verbs[1](...).verbs[2](...)...: as a statement, awaited, as the
\* argument of a function call, or as the argument of another query's where
SelectAst(ctx, verbs) ==
    LET Node(type, parent, calleeType, name, arguments, segment) ==
            [type |-> type, parent |-> parent, calleeType |-> calleeType,
             name |-> name, arguments |-> arguments, segment |-> segment]
        context ==
            << Node("Program", 0, "", "", 0, 0),
               Node("ExpressionStatement", 1, "", "", 0, 0) >> \o
            CASE ctx = "statement" -> <<>>
              [] ctx = "await" -> << Node("AwaitExpression", 2, "", "", 0, 0) >>
              [] ctx = "callArgument" ->
                    << Node("CallExpression", 2, "Identifier", "foo", 1, 0) >>
              [] ctx = "whereArgument" ->
                    << Node("CallExpression", 2, "MemberExpression", "where", 1, 0),
                       Node("MemberExpression", 3, "", "where", 0, 0) >>
        base == Len(context)
        ctxParent == IF ctx = "statement" THEN 2 ELSE 3
        n == Len(verbs)
    IN  context \o
        [j \in 1..(2 * n) |->
            LET k == n - ((j - 1) \div 2) IN
            IF j % 2 = 1
            THEN Node("CallExpression", IF j = 1 THEN ctxParent ELSE base + j - 1,
                      "MemberExpression", verbs[k].name, verbs[k].arguments, k)
            ELSE Node("MemberExpression", base + j - 1, "", verbs[k].name, 0, 0)]

SelectVerbs ==
    { [name |-> "select", arguments |-> 0], [name |-> "select", arguments |-> 1],
      [name |-> "from", arguments |-> 1], [name |-> "rightJoin", arguments |-> 2],
      [name |-> "execute", arguments |-> 0] }

SelectInit ==
    /\ options = <<>>
    /\ \E ctx \in {"statement", "await", "callArgument", "whereArgument"},
          verbs \in SeqsUpTo(SelectVerbs, MaxChainLen) :
          unit = SelectAst(ctx, verbs)
    /\ phase = "new"
    /\ run = 1
    /\ pending = {}
    /\ sameOrder = TRUE
    /\ reports = <<>>
    /\ firstReports = <<>>
    /\ tablesFound = <<>>
    /\ tablesWithRLS = {}
    /\ tablesWithPolicies = {}
    /\ joinCounts = <<>>
    /\ currentTableName = Null

SelectCreate ==
    /\ phase = "new"
    /\ phase' = "visit"
    /\ pending' = DOMAIN unit
    /\ reports' = <<>>
    /\ UNCHANGED <<options, unit, run, sameOrder, firstReports, tablesFound,
                   tablesWithRLS, tablesWithPolicies, joinCounts, currentTableName>>

SelectVisitCall ==
    /\ phase = "visit"
    /\ pending # {}
    /\ LET id == Min(pending) IN
         /\ unit[id].type = "CallExpression"
         /\ reports' = reports \o selectCallExpression(unit, id)
         /\ pending' = pending \ {id}
    /\ UNCHANGED <<options, unit, phase, run, sameOrder, firstReports, tablesFound,
                   tablesWithRLS, tablesWithPolicies, joinCounts, currentTableName>>

SelectVisitOther ==
    /\ phase = "visit"
    /\ pending # {}
    /\ unit[Min(pending)].type # "CallExpression"
    /\ pending' = pending \ {Min(pending)}
    /\ UNCHANGED <<options, unit, phase, run, sameOrder, reports, firstReports,
                   tablesFound, tablesWithRLS, tablesWithPolicies, joinCounts,
                   currentTableName>>

SelectFinish ==
    /\ phase = "visit"
    /\ pending = {}
    /\ phase' = "done"
    /\ UNCHANGED <<options, unit, run, pending, sameOrder, reports, firstReports,
                   tablesFound, tablesWithRLS, tablesWithPolicies, joinCounts,
                   currentTableName>>

SelectNext == SelectCreate \/ SelectVisitCall \/ SelectVisitOther \/ SelectFinish

SpecSelect == SelectInit /\ [][SelectNext]_vars

(***************************************************************************)
(* Properties of require-rls-enabled.                                      *)
(***************************************************************************)
Finished == phase = "done"

DeclaredTables ==
    {unit[i].name : i \in {j \in DOMAIN unit : isTableCall(unit[j]) /\ unit[j].literal}}

\* a statement of the given kind naming table t was seen: the pattern of that
\* kind, run on the text of some raw statement call of the unit, captured t
StatementSeen(kind, t) ==
    \E i \in DOMAIN unit :
        /\ isSqlCall(unit[i])
        /\ execMatch(unit[i].text, kind) = [matched |-> TRUE, table |-> t]

ReportCount(rs, messageId, t) ==
    Cardinality({k \in DOMAIN rs : rs[k].messageId = messageId /\ rs[k].table = t})

NameContainsIgnoringCase(t, p) ==
    \E off \in 0..(Len(t) - Len(p)) :
        \A j \in 1..Len(p) : toLowerCaseChar(t[off + j]) = toLowerCaseChar(p[j])

SubjectToCheck(opts, t) ==
    \/ t \in SeqToSet(sensitiveTablesOf(opts))
    \/ \E p \in SeqToSet(sensitivePatternsOf(opts)) : NameContainsIgnoringCase(t, p)

IsReported(rs, t) == \E k \in DOMAIN rs : rs[k].table = t

\* C4: a declared table is checked iff it is in the explicit list or its name
\* contains a pattern case-insensitively: a table meeting neither condition is
\* never reported, and one meeting either is reported unless both an
\* enable-row-security and a create-policy statement were recorded for it.
C4_SensitivityGate ==
    Finished =>
        \A t \in DeclaredTables :
            /\ IsReported(reports, t) => SubjectToCheck(options, t)
            /\ (SubjectToCheck(options, t)
                  /\ (t \notin tablesWithRLS \/ t \notin tablesWithPolicies))
               => IsReported(reports, t)

C4_Witness ==
    /\ Finished
    /\ IsReported(reports, Users)
    /\ posts \in DeclaredTables
    /\ ~IsReported(reports, posts)
    /\ posts \notin tablesWithRLS

Verdicts(rs) == {<<rs[k].messageId, rs[k].table>> : k \in DOMAIN rs}

\* C5: visiting the table declarations and the statements of a unit in another
\* order gives the same set of diagnostics (kind and table).
C5_FinalizeOrderIndependence ==
    Finished => Verdicts(reports) = Verdicts(firstReports)

C5_Witness ==
    /\ Finished
    /\ ~sameOrder
    /\ Len(unit) = 2
    /\ isTableCall(unit[1]) /\ unit[1].literal
    /\ isSqlCall(unit[2])
    /\ execMatch(unit[2].text, "rls") = [matched |-> TRUE, table |-> unit[1].name]
    /\ Verdicts(reports) = {<<"missingPolicy", unit[1].name>>}

(***************************************************************************)
(* Properties of limit-join-complexity.                                    *)
(***************************************************************************)
\* the join segments of chain c (1: the chain, 2: the enclosing join call)
JoinSegments(c) == {i \in DOMAIN unit : unit[i].chain = c /\ isJoinCall(unit[i])}

\* C6: whichever join segment of a chain the check is triggered from, the
\* join count it computes is the number N of join segments of that chain.
C6_CountFromAnySegment ==
    \A k \in DOMAIN joinCounts :
        joinCounts[k].count =
            Cardinality(JoinSegments(unit[joinCounts[k].node].chain))

ChainReports(c) == {k \in DOMAIN reports : unit[reports[k].node].chain = c}

\* C7: a chain with N join segments gets no tooManyJoins report when
\* N <= max and exactly one, carrying count N and the max, when N > max
\* (stated for a chain that no other join call encloses).
C7_OneReportPerChain ==
    (Finished /\ JoinSegments(2) = {}) =>
        LET N == Cardinality(JoinSegments(1)) IN
        IF N <= maxJoinsOf(options)
        THEN ChainReports(1) = {}
        ELSE /\ Cardinality(ChainReports(1)) = 1
             /\ \A k \in ChainReports(1) :
                   /\ reports[k].count = N
                   /\ reports[k].max = maxJoinsOf(options)

(***************************************************************************)
(* Properties of enforce-uuid-indexes.                                     *)
(***************************************************************************)
Table == unit[1]

ColumnReported(i) == \E k \in DOMAIN reports : reports[k].node = i

\* the index object of the table declaration: the object literal that the
\* builder function has as its body or returns
HasIndexObject ==
    /\ Table.extra.type \in {"ArrowFunctionExpression", "FunctionExpression"}
    /\ \/ Table.extra.bodyType = "ObjectExpression"
       \/ /\ Table.extra.bodyType = "BlockStatement"
          /\ \E i \in DOMAIN Table.extra.body :
                Table.extra.body[i] = ReturnObject

\* some index of the index object is built with .on(table.P)
ReferencedAsTableProperty(P) ==
    /\ HasIndexObject
    /\ \E e \in DOMAIN Table.extra.object :
          \E c \in DOMAIN Table.extra.object[e].calls :
             /\ Table.extra.object[e].calls[c].name = "on"
             /\ \E a \in DOMAIN Table.extra.object[e].calls[c].args :
                   Table.extra.object[e].calls[c].args[a] = OnArg("table", P)

\* C8: a UUID column with property key P and declared name D, P # D, that an
\* index of the table's index object references as table.P is not reported.
C8_TwoNameInvariant ==
    Finished =>
        \A i \in DOMAIN Table.columns :
            LET col == Table.columns[i] IN
            (/\ isTableCall(Table)
             /\ col.ctor = "uuid"
             /\ col.arg0.literal
             /\ col.arg0.value # col.key
             /\ ReferencedAsTableProperty(col.key))
            => ~ColumnReported(i)

C8_Witness ==
    /\ Finished
    /\ isTableCall(Table)
    /\ Len(Table.columns) = 2
    /\ Table.columns[1] = Column("Identifier", userId, "uuid", Arg0(user_id), <<>>)
    /\ Table.columns[2] = Column("Identifier", user_id, "uuid", Arg0(userId), <<>>)
    /\ ReferencedAsTableProperty(userId)
    /\ ~ReferencedAsTableProperty(user_id)
    /\ ~ColumnReported(1)
    /\ ColumnReported(2)

ChainHasIndexSegment(col) ==
    \E m \in SeqToSet(col.methods) : m = "primaryKey" \/ m = "unique"

\* the columns C9 expects a report for, as the claim words it
C9_ExpectedAsClaimed ==
    {i \in DOMAIN Table.columns :
        /\ isUUIDColumn(Table.columns[i])
        /\ ~ChainHasIndexSegment(Table.columns[i])
        /\ Table.columns[i].key \notin extractIndexedProperties(Table)}

\* ... and restricted to columns with an identifier key and a non-empty
\* string-literal declared name
C9_Expected ==
    {i \in C9_ExpectedAsClaimed :
        /\ Table.columns[i].keyType = "Identifier"
        /\ Table.columns[i].arg0.literal
        /\ Table.columns[i].arg0.value # <<>>}

ReportsMatch(expected) ==
    /\ {reports[k].node : k \in DOMAIN reports} = expected
    /\ Len(reports) = Cardinality(expected)
    /\ \A k \in DOMAIN reports :
          /\ reports[k].columnName = Table.columns[reports[k].node].arg0.value
          /\ \A j \in DOMAIN reports : j < k => reports[j].node < reports[k].node

C10_IgnorePrimaryKeysOption ==
    phase \in {"done", "invalid"} =>
        \A i \in DOMAIN Table.columns :
            LET col == Table.columns[i] IN
            (/\ isTableCall(Table)
             /\ isUUIDColumn(col)
             /\ col.keyType = "Identifier"
             /\ col.arg0.literal /\ col.arg0.value # <<>>
             /\ "primaryKey" \in SeqToSet(col.methods)
             /\ "unique" \notin SeqToSet(col.methods)
             /\ col.key \notin extractIndexedProperties(Table))
            => (ColumnReported(i) <=>
                  (options.ignorePrimaryKeys.present
                   /\ options.ignorePrimaryKeys.value = FALSE))

(***************************************************************************)
(* Properties of enforce-delete-with-where and enforce-update-with-where.  *)
(***************************************************************************)
Expr == unit[1]

SegmentNames == {Expr.segments[j].name : j \in DOMAIN Expr.segments}

\* the unit is <receiver>.verb(...) followed by further segments
IsChainFrom(verb) ==
    /\ Expr.type = "CallChain"
    /\ Expr.receiver # ""
    /\ Expr.segments[1] = Segment(verb, TRUE)

ReportsOf(messageId) == {k \in DOMAIN reports : reports[k].messageId = messageId}

CommentMentions(comment, word) == NameContainsIgnoringCase(comment, word)

PrecededByMigrationComment(node) ==
    \E c \in DOMAIN node.comments :
        CommentMentions(node.comments[c], <<"m","i","g","r","a","t","i","o","n">>)

IndicatorReported(id) ==
    \E k \in DOMAIN reports :
        reports[k].node = id /\ reports[k].messageId = "bypassDetected"

\* C11: a property access named serviceRole, adminClient, serviceClient or
\* bypassRLS is not reported when a comment containing "migration" (any letter
\* case) immediately precedes it, and is reported when no such comment does.
C11_JustificationPrecedence ==
    Finished =>
        \A id \in DOMAIN unit :
            (unit[id].type = "MemberExpression"
             /\ unit[id].propertyName \in bypassIndicators)
            => (IndicatorReported(id) <=> ~PrecededByMigrationComment(unit[id]))

(***************************************************************************)
(* Properties of enforce-snake-case-naming and require-timestamp-columns.  *)
(***************************************************************************)
IsLowercaseLetter(c) == \E i \in DOMAIN Lowers : Lowers[i] = c

\* a lowercase letter followed only by lowercase letters, digits, underscores
MatchesSnakeGrammar(name) ==
    /\ name # <<>>
    /\ IsLowercaseLetter(name[1])
    /\ \A i \in DOMAIN name :
          IsLowercaseLetter(name[i]) \/ name[i] \in Digits \/ name[i] = "_"

SnakeChecked ==
    Finished /\ options.check = "enforce-snake-case-naming" /\ isTableCall(Table)

\* the column identifiers of the table declaration: the identifier keys of
\* the properties of its columns object
ColumnIdentifiers ==
    IF Table.columnsType # "ObjectExpression" THEN {}
    ELSE {i \in DOMAIN Table.columns : /\ Table.columns[i].type = "Property"
                                       /\ Table.columns[i].keyType = "Identifier"}

OffendingIdentifiers ==
    (IF Table.nameArg.literal /\ ~MatchesSnakeGrammar(Table.nameArg.value)
     THEN {0} ELSE {})
    \cup {i \in ColumnIdentifiers :
             /\ ~MatchesSnakeGrammar(Table.columns[i].key)
             /\ Table.columns[i].key \notin {createdAt, updatedAt}}

C13_DeclaredNameChecked ==
    SnakeChecked =>
        \A i \in ColumnIdentifiers :
            Table.columns[i].arg0.literal =>
                (ColumnReported(i) <=>
                    /\ ~MatchesSnakeGrammar(Table.columns[i].arg0.value)
                    /\ Table.columns[i].arg0.value \notin {createdAt, updatedAt})

TimestampChecked ==
    /\ Finished
    /\ options.check = "require-timestamp-columns"
    /\ isTableCall(Table)
    /\ Table.nameArg.literal

PropertyKeys ==
    {Table.columns[i].key :
        i \in {j \in DOMAIN Table.columns :
                  /\ Table.columns[j].type = "Property"
                  /\ Table.columns[j].keyType \in {"Identifier", "Literal"}}}

\* C16: a table declaration gets one missingTimestamps report naming it iff
\* its name is not in ignoreTables, checkTables is undefined or contains it,
\* its columns argument is an object literal, and the property keys lack a
\* created column or lack an updated column, in either spelling; it gets no
\* report otherwise.
C16_TimestampGate ==
    TimestampChecked =>
        LET name == Table.nameArg.value
            ignored == options.ignoreTables.present
                       /\ name \in SeqToSet(options.ignoreTables.value)
            selected == ~options.checkTables.present
                        \/ name \in SeqToSet(options.checkTables.value)
            hasCreated == PropertyKeys \cap {created_at, createdAt} # {}
            hasUpdated == PropertyKeys \cap {updated_at, updatedAt} # {}
        IN  IF /\ ~ignored
               /\ selected
               /\ Table.columnsType = "ObjectExpression"
               /\ (~hasCreated \/ ~hasUpdated)
            THEN reports = << [messageId |-> "missingTimestamps", node |-> 1,
                               name |-> name] >>
            ELSE reports = <<>>

C16_Witness ==
    /\ TimestampChecked
    /\ Table.nameArg = Arg0(user_id)
    /\ options.checkTables = Given(<<users, user_id>>)
    /\ options.ignoreTables = Given(<<users>>)
    /\ Table.columnsType = "ObjectExpression"
    /\ PropertyKeys = {created_at, userId}
    /\ Len(reports) = 1

(***************************************************************************)
(* Properties of enforce-index-naming.                                     *)
(***************************************************************************)
\* the index calls the check looks at: index, uniqueIndex or unique with a
\* string-literal name
IndexCalls ==
    {i \in DOMAIN unit : /\ unit[i].callee \in {"index", "uniqueIndex", "unique"}
                         /\ unit[i].nameArg.literal}

IndexName(i) == unit[i].nameArg.value

\* segment(_segment)*, a segment being a lowercase letter followed by
\* lowercase letters, digits and underscores
RECURSIVE IsSegments(_)
IsSegments(text) ==
    \/ MatchesSnakeGrammar(text)
    \/ \E c \in 2..(Len(text) - 1) :
          /\ text[c] = "_"
          /\ MatchesSnakeGrammar(SubSeq(text, 1, c - 1))
          /\ IsSegments(SubSeq(text, c + 1, Len(text)))

BeginsWith(text, start) ==
    /\ Len(start) <= Len(text)
    /\ \A j \in DOMAIN start : text[j] = start[j]

\* the generic shape (idx|uq|uk)_segment(_segment)*
GenericShape(name) ==
    \E p \in {<<"i","d","x","_">>, <<"u","q","_">>, <<"u","k","_">>} :
        /\ BeginsWith(name, p)
        /\ IsSegments(SubSeq(name, Len(p) + 1, Len(name)))

\* the table declaration that call i lies inside, 0 if it lies inside none
EnclosingTable(i) ==
    IF ~unit[i].inside THEN 0
    ELSE CHOOSE j \in 1..(i - 1) :
            /\ isTableCall(unit[j])
            /\ \A k \in (j + 1)..(i - 1) : ~isTableCall(unit[k])

\* call i lies inside a table declaration whose name T is a string literal
EnclosingNameKnown(i) ==
    /\ EnclosingTable(i) # 0
    /\ unit[EnclosingTable(i)].nameArg.literal
    /\ unit[EnclosingTable(i)].nameArg.value # <<>>

EnclosingName(i) == unit[EnclosingTable(i)].nameArg.value

NoTableDeclaredBefore(i) ==
    \A j \in 1..(i - 1) : ~(isTableCall(unit[j]) /\ unit[j].nameArg.literal)

IndexReportCount(i) == Cardinality({k \in DOMAIN reports : reports[k].node = i})

TablePrefix(kind, T) == kind \o <<"_">> \o T \o <<"_">>

C15_UkPrefixAccepted ==
    Finished =>
        \A i \in IndexCalls :
            (/\ unit[i].callee \in {"uniqueIndex", "unique"}
             /\ EnclosingNameKnown(i)
             /\ GenericShape(IndexName(i))
             /\ \/ BeginsWith(IndexName(i), TablePrefix(<<"u","k">>, EnclosingName(i)))
                \/ BeginsWith(IndexName(i), TablePrefix(<<"u","q">>, EnclosingName(i))))
            => IndexReportCount(i) = 0

\* C18: linting the same unit twice with the same configuration gives the
\* same reports in the same order; nothing remembered by the first run (the
\* declared tables, the enabled and policy sets, the table name) reaches the
\* second.
C18_Idempotence ==
    (Finished /\ sameOrder) => reports = firstReports

C18_Witness ==
    /\ Finished
    /\ run = 2
    /\ Len(unit) = 3
    /\ 1 \in IndexCalls /\ ~unit[1].inside /\ GenericShape(IndexName(1))
    /\ isTableCall(unit[2]) /\ unit[2].nameArg = Arg0(posts)
    /\ 3 \in IndexCalls /\ unit[3] = [unit[1] EXCEPT !.inside = TRUE]
    /\ Len(reports) = 1 /\ reports[1].node = 3
    /\ firstReports = reports

(***************************************************************************)
(* Properties of no-select-star.                                           *)
(***************************************************************************)
QueryContextVerbs ==
    {"from", "where", "orderBy", "limit", "offset",
     "leftJoin", "innerJoin", "rightJoin", "fullJoin"}

\* the .select calls of the fluent chain
SelectCalls == {i \in DOMAIN unit : unit[i].segment > 0 /\ unit[i].name = "select"}

\* a later segment of the chain of call i is a query-context verb
QueryVerbFollows(i) ==
    \E j \in DOMAIN unit :
        /\ unit[j].segment > unit[i].segment
        /\ unit[j].name \in QueryContextVerbs

\* C17: a .select() call with no argument gets one noSelectStar report iff a
\* later segment of its chain is one of from, where, orderBy, limit, offset,
\* leftJoin, innerJoin, rightJoin, fullJoin; a .select(...) call with an
\* argument, and a bare .select() with no such verb in its chain, get none.
C17_SelectStarInQueryContext ==
    Finished =>
        \A i \in SelectCalls :
            Cardinality({k \in DOMAIN reports : reports[k].node = i}) =
                (IF unit[i].arguments = 0 /\ QueryVerbFollows(i) THEN 1 ELSE 0)

(***************************************************************************)
(* Further properties of enforce-uuid-indexes.                             *)
(***************************************************************************)
EqualsIgnoringCase(a, b) ==
    Len(a) = Len(b) /\ NameContainsIgnoringCase(a, b)

EndsWithIgnoringCase(a, suffix) ==
    /\ Len(suffix) <= Len(a)
    /\ EqualsIgnoringCase(SubSeq(a, Len(a) - Len(suffix) + 1, Len(a)), suffix)

\* UUID-like, as the claim words it
UuidLike(col) ==
    \/ col.ctor = "uuid"
    \/ /\ col.ctor \in {"varchar", "text", "char"}
       /\ col.arg0.literal
       /\ \/ NameContainsIgnoringCase(col.arg0.value, <<"u","u","i","d">>)
          \/ EndsWithIgnoringCase(col.arg0.value, <<"_","i","d">>)
          \/ EqualsIgnoringCase(col.arg0.value, <<"i","d">>)

\* a column that is reported if it is classified UUID-like: it has an
\* identifier key and a non-empty declared name, and neither a column-level
\* nor a table-level index
Unindexed(i) ==
    LET col == Table.columns[i] IN
    /\ col.keyType = "Identifier"
    /\ col.arg0.literal /\ col.arg0.value # <<>>
    /\ ~ChainHasIndexSegment(col)
    /\ col.key \notin extractIndexedProperties(Table)

\* C19: a column is classified UUID-like iff it is built from uuid, or from
\* varchar, text or char with a declared name that, case-insensitively,
\* contains uuid, ends with _id or equals id: a column that is not is never
\* reported, and an unindexed column that is, is reported.
C19_UuidLikeClassification ==
    (Finished /\ isTableCall(Table)) =>
        \A i \in DOMAIN Table.columns :
            /\ ColumnReported(i) => UuidLike(Table.columns[i])
            /\ (UuidLike(Table.columns[i]) /\ Unindexed(i)) => ColumnReported(i)

C19_Witness ==
    /\ Finished
    /\ isTableCall(Table)
    /\ Len(Table.columns) = 2
    /\ Table.columns[1].ctor = "char" /\ Table.columns[1].arg0 = Arg0(<<"I","D">>)
    /\ ColumnReported(1)
    /\ Table.columns[2].ctor = "integer" /\ Table.columns[2].arg0 = Arg0(user_id)
    /\ Unindexed(2)
    /\ ~ColumnReported(2)

\* the table declaration with the body of its builder function written in
\* the other form: (table) => (L) for (table) => { return L; } and back
OtherBodyForm ==
    [Table EXCEPT !.extra =
        IF Table.extra.bodyType = "ObjectExpression"
        THEN [Table.extra EXCEPT !.bodyType = "BlockStatement", !.body = <<ReturnObject>>]
        ELSE [Table.extra EXCEPT !.bodyType = "ObjectExpression", !.body = <<>>]]

IsLiteralOrReturnBody ==
    /\ Table.extra.type \in {"ArrowFunctionExpression", "FunctionExpression"}
    /\ \/ Table.extra.bodyType = "ObjectExpression"
       \/ Table.extra.bodyType = "BlockStatement" /\ Table.extra.body = <<ReturnObject>>

\* C20: for any index object L, the builders (table) => (L) and
\* (table) => { return L; } give the same set of referenced properties and
\* the same uuid-index reports.
C20_BodyFormsEquivalent ==
    (Finished /\ IsLiteralOrReturnBody) =>
        /\ extractIndexedProperties(Table) = extractIndexedProperties(OtherBodyForm)
        /\ reports = uuidCallExpression(OtherBodyForm)

C20_Witness ==
    /\ Finished
    /\ isTableCall(Table)
    /\ Table.extra.bodyType = "BlockStatement"
    /\ Table.extra.body = <<ReturnObject>>
    /\ extractIndexedProperties(Table) = {name_id, userId}
    /\ Len(Table.columns) = 2
    /\ Table.columns[1] = Column("Identifier", userId, "uuid", Arg0(user_id), <<>>)
    /\ Table.columns[2] = Column("Identifier", user_id, "uuid", Arg0(userId), <<>>)
    /\ {reports[k].node : k \in DOMAIN reports} = {2}

\* C21: the extractor records an .on(...) argument only when it is a property
\* access on the builder function's declared parameter: every recorded
\* property is referenced as table.P, and a UUID-like column that no index
\* references that way (only, say, as other.P) and that has no column-level
\* index is reported.
C21_OnlyParameterAccessRecorded ==
    (Finished /\ isTableCall(Table)) =>
        /\ \A P \in extractIndexedProperties(Table) : ReferencedAsTableProperty(P)
        /\ \A i \in DOMAIN Table.columns :
              LET col == Table.columns[i] IN
              (/\ UuidLike(col)
               /\ col.keyType = "Identifier"
               /\ col.arg0.literal /\ col.arg0.value # <<>>
               /\ ~ChainHasIndexSegment(col)
               /\ ~ReferencedAsTableProperty(col.key))
              => ColumnReported(i)

(***************************************************************************)
(* Properties of require-rls-enabled: the forward pass and the finalize    *)
(* step.                                                                   *)
(***************************************************************************)
\* a step of the Program:exit listener: every node of the unit was visited
FinalizeStep == phase = "visit" /\ pending = {} /\ phase' # "visit"

\* C22: the forward pass emits nothing: while nodes are being visited the
\* report list is empty, and the report list changes only in the finalize
\* step, taken after every table declaration and every raw statement of the
\* unit was visited (or when a new run starts with an empty list).
C22_ReportsOnlyAtFinalize ==
    /\ [](phase = "visit" => reports = <<>>)
    /\ [][reports' # reports => (FinalizeStep \/ (phase = "new" /\ reports' = <<>>))]_vars

C22_Witness ==
    /\ phase = "visit"
    /\ pending # {}
    /\ \E k \in DOMAIN tablesFound :
          /\ isSensitiveTable(options, tablesFound[k].key)
          /\ tablesFound[k].key \notin tablesWithRLS
    /\ \E i \in DOMAIN unit \ pending : isSqlCall(unit[i])
    /\ reports = <<>>

\* the state in which the first run over the unit, in source order, has ended
FirstRunFinished == run = 2 /\ phase = "new"

FirstDeclared(t) ==
    Min({i \in DOMAIN unit : isTableCall(unit[i]) /\ unit[i].literal /\ unit[i].name = t})

\* C23: the reports of a run come in the order in which their table names
\* were first declared in the unit, and no declared name has two reports,
\* however many times it is declared.
C23_FirstDeclarationOrder ==
    FirstRunFinished =>
        /\ \A k \in DOMAIN firstReports : firstReports[k].table \in DeclaredTables
        /\ \A j, k \in DOMAIN firstReports :
              j < k => FirstDeclared(firstReports[j].table)
                          < FirstDeclared(firstReports[k].table)

C23_Witness ==
    /\ FirstRunFinished
    /\ Len(unit) = 3
    /\ unit[1] = TableNode("pgTable", users)
    /\ unit[2] = TableNode("mysqlTable", posts)
    /\ unit[3] = TableNode("pgTable", users)
    /\ [k \in DOMAIN firstReports |-> firstReports[k].table] = <<users, posts>>

Keys(m) == [i \in DOMAIN m |-> m[i].key]

IsPrefix(a, b) == Len(a) <= Len(b) /\ SubSeq(b, 1, Len(a)) = a

\* C24: within a run the declared table names, the RLS-enabled names and the
\* policy-bearing names only grow: a step of the forward pass keeps every
\* name it found, the declared names in their order, and the finalize step
\* leaves the three collections as they are.
C24_AppendOnly ==
    [][phase = "visit" =>
          /\ IsPrefix(Keys(tablesFound), Keys(tablesFound'))
          /\ tablesWithRLS \subseteq tablesWithRLS'
          /\ tablesWithPolicies \subseteq tablesWithPolicies'
          /\ FinalizeStep => UNCHANGED <<tablesFound, tablesWithRLS, tablesWithPolicies>>]_vars

C24_Witness ==
    /\ Finished
    /\ tablesFound # <<>>
    /\ Cardinality(tablesWithRLS) = 2
    /\ tablesWithPolicies # {}
    /\ reports # <<>>

(***************************************************************************)
(* Properties of enforce-index-naming: the remembered table name.          *)
(***************************************************************************)
\* the table declarations with a string-literal name visited so far in the run
NamedTablesVisited ==
    {i \in DOMAIN unit \ pending : isTableCall(unit[i]) /\ unit[i].nameArg.literal}

\* C25: during a run the remembered table name is unknown until a table
\* declaration with a string-literal name was visited, and from then on it is
\* the name of the one visited last; visiting any other call, an index call
\* included, leaves it as it is.
C25_RememberedTableName ==
    /\ [](phase = "visit" =>
            currentTableName =
               IF NamedTablesVisited = {} THEN Null
               ELSE NotNull(unit[CHOOSE i \in NamedTablesVisited :
                                    \A j \in NamedTablesVisited : j <= i].nameArg.value))
    /\ [][(phase = "visit" /\ pending # {} /\ ~isTableCall(unit[Min(pending)]))
            => currentTableName' = currentTableName]_vars

C25_Witness ==
    /\ phase = "visit"
    /\ pending = {}
    /\ Len(unit) = 3
    /\ unit[1].callee = "pgTable" /\ unit[1].nameArg = Arg0(users)
    /\ unit[2].callee = "sqliteTable" /\ unit[2].nameArg = Arg0(posts)
    /\ 3 \in IndexCalls
    /\ currentTableName = NotNull(posts)

\* C29: an index call is held to the table-prefix gate of T only when it lies
\* inside the declaration of T: a call whose name has the generic shape is
\* reported only if it lies inside a table declaration with a known name T
\* and does not begin with the prefix for T; a call outside every table
\* declaration is not reported, whatever tables were visited before it.
C29_PrefixGateOnlyInsideTable ==
    Finished =>
        \A i \in IndexCalls :
            (GenericShape(IndexName(i)) /\ IndexReportCount(i) > 0) =>
                /\ EnclosingNameKnown(i)
                /\ LET kind == IF unit[i].callee = "index" THEN <<"i","d","x">>
                               ELSE <<"u","q">>
                   IN ~BeginsWith(IndexName(i), TablePrefix(kind, EnclosingName(i)))

(***************************************************************************)
(* Properties of prevent-rls-bypass: the justification comment.            *)
(***************************************************************************)
\* the comment matches the justification pattern: it contains the word, or
\* the first word, one or more whitespace characters and the second word,
\* letters compared without regard to case
MatchesJustification(comment, pattern) ==
    IF Len(pattern) = 1 THEN CommentMentions(comment, pattern[1])
    ELSE \E a \in 1..Len(comment), b \in 1..Len(comment) :
            /\ a < b
            /\ EndsWithIgnoringCase(SubSeq(comment, 1, a), pattern[1])
            /\ \A k \in (a + 1)..b : comment[k] \in Whitespace
            /\ Len(pattern[2]) <= Len(comment) - b
            /\ EqualsIgnoringCase(SubSeq(comment, b + 1, b + Len(pattern[2])), pattern[2])

Justified(node) ==
    \E c \in DOMAIN node.comments :
        \E p \in DOMAIN validBypassReasons :
            MatchesJustification(node.comments[c], validBypassReasons[p])

BypassReportCount(id, messageId, method) ==
    Cardinality({k \in DOMAIN reports :
                    reports[k] = [messageId |-> messageId, node |-> id, method |-> method]})

C27_CountWithinChain ==
    \A k \in DOMAIN joinCounts :
        joinCounts[k].count
            <= Cardinality(JoinSegments(unit[joinCounts[k].node].chain))

(***************************************************************************)
(* Properties of require-rls-enabled: detection of the raw statements and  *)
(* the default patterns.                                                   *)
(***************************************************************************)
\* the raw sql templates of the unit: sql`...` and sql(`...`)
RawTemplates ==
    {i \in DOMAIN unit : unit[i].callee = "sql" /\ unit[i].template}

\* the tables named by a statement of the given kind whose text appears in
\* some raw sql template of the unit
NamedByStatement(kind) ==
    UNION { {unit[i].text[j].table :
                j \in {n \in DOMAIN unit[i].text : unit[i].text[n].kind = kind}} :
            i \in RawTemplates }

\* C28: at the end of the unit every table named by an enable-row-security
\* statement that appears in a raw sql template of the unit is in the enabled
\* set, and every table named by a create-policy statement is in the policy
\* set, also when one template holds several such statements.
C28_EveryStatementRecorded ==
    Finished =>
        /\ NamedByStatement("rls") \subseteq tablesWithRLS
        /\ NamedByStatement("policy") \subseteq tablesWithPolicies

MatchesDefaultPattern(t) ==
    \E p \in SeqToSet(defaultSensitivePatterns) : NameContainsIgnoringCase(t, p)

MatchesSuppliedPattern(t) ==
    \E p \in SeqToSet(options.sensitivePatterns.value) : NameContainsIgnoringCase(t, p)

Listed(t) ==
    options.sensitiveTables.present /\ t \in SeqToSet(options.sensitiveTables.value)

\* C30: with sensitiveTables supplied and sensitivePatterns not, the default
\* patterns stay in force: a declared table matching a default pattern is
\* still checked (reported unless both statements were recorded for it), and
\* one neither listed nor matching a default pattern is not reported.  Only
\* supplying sensitivePatterns replaces the defaults: then a table that is
\* neither listed nor matches a supplied pattern is not reported.
C30_DefaultPatternsKept ==
    FirstRunFinished =>
        \A t \in DeclaredTables :
            /\ (options.sensitiveTables.present /\ ~options.sensitivePatterns.present) =>
                  /\ (MatchesDefaultPattern(t)
                      /\ ~(t \in tablesWithRLS /\ t \in tablesWithPolicies))
                     => IsReported(reports, t)
                  /\ (~Listed(t) /\ ~MatchesDefaultPattern(t)) => ~IsReported(reports, t)
            /\ (options.sensitivePatterns.present
                /\ ~Listed(t) /\ ~MatchesSuppliedPattern(t)) => ~IsReported(reports, t)

C30_Witness ==
    /\ FirstRunFinished
    /\ options = [sensitiveTables |-> Given(<<users>>), sensitivePatterns |-> Undefined]
    /\ {Users, posts} \subseteq DeclaredTables
    /\ ~Listed(Users) /\ MatchesDefaultPattern(Users)
    /\ IsReported(reports, Users)
    /\ ~Listed(posts) /\ ~MatchesDefaultPattern(posts)
    /\ ~IsReported(reports, posts)

====
